---- MODULE Spec2Model ----
(***************************************************************************)
(* A model of the sudachiclone morphological analyzer.                     *)
(*                                                                         *)
(* The module holds one state machine per component:                       *)
(*   SpecBuilder  UTF8InputTextBuilder: replace / build                    *)
(*   SpecCat      CharacterCategory: compile / get_category_types          *)
(*   SpecLex      Dictionary::setup's user dictionaries, LexiconSet        *)
(*   SpecTok      Tokenizer::tokenize on one Dictionary: input text,        *)
(*                lattice fill, best path, split                           *)
(*   SpecLock     two threads in tokenize: the grammar and lexicon-set      *)
(*                mutexes                                                  *)
(* Sequences of the program are 0-based; the operators At, Slice keep      *)
(* the program's indices and translate to TLA+'s 1-based sequences.        *)
(***************************************************************************)
EXTENDS Integers, Sequences, FiniteSets, TLC

VARIABLES
  \* UTF8InputTextBuilder (utf8_input_text_builder.rs)
  original_text,   \* the text given to new(), a sequence of code points
  modified_text,   \* the current modified text, a sequence of code points
  text_offsets,    \* modified-character index -> original-character index
  last_replace,    \* the last replace call: its arguments, its result, the builder before it
  prefix_deleted,  \* some successful replace had start 0 and an empty replacement
  replaces,        \* number of replace calls made so far
  built            \* the UTF8InputText returned by build(), or NoInput

builderVars == <<original_text, modified_text, text_offsets, last_replace,
                 prefix_deleted, replaces, built>>

VARIABLES
  \* CharacterCategory (dictionary_lib/character_category.rs)
  cat_input,       \* the ranges read from the definition, in the order read
  range_list,      \* CharacterCategory.range_list
  cat_pc,          \* "read": ranges pushed, "compiled", or "panicked"
  cat_query        \* the last get_category_types call: code point and result

catVars == <<cat_input, range_list, cat_pc, cat_query>>

VARIABLES
  \* LexiconSet (dictionary_lib/lexicon_set.rs) and Dictionary::setup (dictionary.rs)
  lexicons,        \* LexiconSet.lexicons
  pos_offsets,     \* LexiconSet.pos_offsets
  pos_list_len,    \* Grammar.pos_list.len()
  user_dict_paths, \* config.user_dict_paths(): the dictionary files still to read
  id_collisions,   \* lexicons that drew the random id of a lexicon already in the set
  lex_pc,          \* "setup", "ready", "looked" (a lookup returned), "too_many"
                   \* (setup failed) or "panicked"
  lex_lookup,      \* the last LexiconSet::lookup call and its result
  lex_get          \* what the getters return for one word id of the last lookup

lexVars == <<lexicons, pos_offsets, pos_list_len, user_dict_paths, id_collisions,
             lex_pc, lex_lookup, lex_get>>

VARIABLES
  \* Dictionary and Tokenizer (dictionary.rs, tokenizer.rs, lattice.rs)
  matrix_view,           \* Grammar.matrix_view
  oov_provider_plugins,  \* Tokenizer.oov_provider_plugins
  input_text_plugins,    \* Tokenizer.input_text_plugins
  overflow_checks,       \* the build panics on integer overflow (debug profile)
  grammar_poisoned,      \* a thread panicked holding the guard of the grammar mutex
  lexicon_set_poisoned,  \* a thread panicked holding the guard of the lexicon-set mutex
  logger_set,            \* log::set_boxed_logger has succeeded once
  failures,              \* how the calls made so far have failed
  tok_pc,                \* "idle", or "returned" / "panicked": a call has ended
  tok_result             \* the last tokenize call: its arguments, lattice and result

tokVars == <<matrix_view, oov_provider_plugins, input_text_plugins, overflow_checks,
             grammar_poisoned, lexicon_set_poisoned, logger_set, failures,
             tok_pc, tok_result>>

VARIABLES
  \* threads that call tokenize on tokenizers of one Dictionary
  log_enabled,     \* log_enabled!(Level::Info)
  holder,          \* mutex -> the thread that holds its guard, or NoThread
  threads          \* thread -> where it is in tokenize and what it has left to do

lockVars == <<log_enabled, holder, threads>>

VARIABLES
  \* one DoubleArrayTrie and the calls made on it
  trie_keys,       \* the keys of the last build, in the order given
  trie_values,     \* their values
  trie_array,      \* DoubleArrayTrie.array
  trie_size,       \* DoubleArrayTrie.size
  trie_first,      \* the keys, values and array of the first build of the object
  trie_pc,         \* "new", "built", or "panicked": a call has panicked
  trie_query       \* the last common_prefix_search call and what it returned

trieVars == <<trie_keys, trie_values, trie_array, trie_size, trie_first, trie_pc,
              trie_query>>

VARIABLES
  \* the binary dictionary files read for one Dictionary
  dict_loaded,     \* the header versions of the dictionaries read so far, in order
  dict_read        \* the last read: the file, the role and the result

dictVars == <<dict_loaded, dict_read>>

VARIABLES
  \* DoubleArrayLexicon::calculate_cost on a user lexicon (double_array_lexicon.rs)
  word_costs,      \* word_params' cost of each word of the user lexicon
  tokenized,       \* what tokenizer.tokenize gives for the surface of each word
  cost_pc,         \* "read": not calculated yet, "calculated", or "panicked"
  cost_read        \* the costs as read from the file

costVars == <<word_costs, tokenized, cost_pc, cost_read>>

VARIABLES
  \* DictionaryBuilder::write_matrix and Grammar::from_reader (dictionary_lib)
  matrix_def,      \* matrix.def: the sizes of its header and the cost of each line "l r cost"
  matrix_file,     \* the i16 values write_matrix wrote after the two sizes
  grammar_matrix,  \* matrix_view of the Grammar that from_reader made of the file
  mat_pc,          \* "text", "written", "loaded" or "panicked"
  mat_query        \* the last get_connect_cost call and its result

matVars == <<matrix_def, matrix_file, grammar_matrix, mat_pc, mat_query>>

VARIABLES
  \* MecabOovPlugin::provide_oov (plugin/mecab_oov_plugin.rs)
  oov_plugin,  \* the MecabOovPlugin: categories of char.def, oovs_list of unk.def
  oov_input,   \* the UTF8InputText provide_oov is called on
  oov_query    \* the last provide_oov call: offset, has_other_words, and the nodes or the panic

oovVars == <<oov_plugin, oov_input, oov_query>>

VARIABLES
  \* MecabOovPlugin::read_oov_from_reader (plugin/mecab_oov_plugin.rs)
  unk_def,   \* unk.def: the columns of each of its lines
  unk_read   \* what read_oov_from_reader returned for it

unkVars == <<unk_def, unk_read>>

VARIABLES
  \* DefaultInputTextPlugin::rewrite (plugin/default_input_text_plugin.rs)
  norm_plugin,  \* the DefaultInputTextPlugin: key_lengths, replace_char_map, ignore_normalize_set
  norm_text,    \* the text of the builder rewrite is called on
  norm_result   \* the builder after rewrite, or the panic

normVars == <<norm_plugin, norm_text, norm_result>>

VARIABLES
  \* ProlongedSoundMarkInputTextPlugin::rewrite (plugin/prolonged_soundmark_input_text_plugin.rs)
  psm_plugin,  \* the ProlongedSoundMarkInputTextPlugin: psm_set, replace_symbol
  psm_text,    \* the text of the builder rewrite is called on
  psm_result   \* the builder after rewrite

psmVars == <<psm_plugin, psm_text, psm_result>>

\* the components that are one call each
callVars == <<costVars, matVars, oovVars, unkVars, normVars, psmVars>>

vars == <<builderVars, catVars, lexVars, tokVars, lockVars, trieVars, dictVars, callVars>>

\* the variables each component leaves alone
notBuilder == <<catVars, lexVars, tokVars, lockVars, trieVars, dictVars, callVars>>
notCat == <<builderVars, lexVars, tokVars, lockVars, trieVars, dictVars, callVars>>
notLex == <<builderVars, catVars, tokVars, lockVars, trieVars, dictVars, callVars>>
notTok == <<builderVars, catVars, lexVars, lockVars, trieVars, dictVars, callVars>>
notLock == <<builderVars, catVars, lexVars, tokVars, trieVars, dictVars, callVars>>
notTrie == <<builderVars, catVars, lexVars, tokVars, lockVars, dictVars, callVars>>
notDict == <<builderVars, catVars, lexVars, tokVars, lockVars, trieVars, callVars>>
notCost == <<builderVars, catVars, lexVars, tokVars, lockVars, trieVars, dictVars, matVars, oovVars, unkVars, normVars, psmVars>>
notMat == <<builderVars, catVars, lexVars, tokVars, lockVars, trieVars, dictVars, costVars, oovVars, unkVars, normVars, psmVars>>
notOov == <<builderVars, catVars, lexVars, tokVars, lockVars, trieVars, dictVars, costVars, matVars, unkVars, normVars, psmVars>>
notUnk == <<builderVars, catVars, lexVars, tokVars, lockVars, trieVars, dictVars, costVars, matVars, oovVars, normVars, psmVars>>
notNorm == <<builderVars, catVars, lexVars, tokVars, lockVars, trieVars, dictVars, costVars, matVars, oovVars, unkVars, psmVars>>
notPsm == <<builderVars, catVars, lexVars, tokVars, lockVars, trieVars, dictVars, costVars, matVars, oovVars, unkVars, normVars>>

----------------------------------------------------------------------------
\* Bounds of the model.

\* Longest original text, in characters.
MaxTextLen == 2
\* Longest replacement text given to replace, in characters.
MaxReplLen == 2
\* Number of replace calls on one builder.
MaxReplaces == 2

----------------------------------------------------------------------------
\* The state of a component no call has been made on.

NoQuery == [called |-> FALSE]

\* a builder of the empty text
BuilderIdle ==
  /\ original_text = <<>>
  /\ modified_text = <<>>
  /\ text_offsets = <<0>>
  /\ last_replace = [called |-> FALSE]
  /\ prefix_deleted = FALSE
  /\ replaces = 0
  /\ built = [built |-> FALSE]

\* a CharacterCategory with an empty range_list
CatIdle ==
  /\ cat_input = <<>>
  /\ range_list = <<>>
  /\ cat_pc = "read"
  /\ cat_query = NoQuery

\* a lexicon set not constructed yet
LexIdle ==
  /\ lexicons = <<>>
  /\ pos_offsets = <<>>
  /\ pos_list_len = 0
  /\ user_dict_paths = <<>>
  /\ id_collisions = 0
  /\ lex_pc = "setup"
  /\ lex_lookup = [called |-> FALSE]
  /\ lex_get = [called |-> FALSE]

\* no Dictionary set up
TokIdle ==
  /\ matrix_view = <<>>
  /\ oov_provider_plugins = <<>>
  /\ input_text_plugins = <<>>
  /\ overflow_checks = FALSE
  /\ grammar_poisoned = FALSE
  /\ lexicon_set_poisoned = FALSE
  /\ logger_set = FALSE
  /\ failures = {}
  /\ tok_pc = "idle"
  /\ tok_result = NoQuery

\* no thread started
LockIdle ==
  /\ log_enabled = FALSE
  /\ holder = <<>>
  /\ threads = <<>>

\* a DoubleArrayTrie::default() nothing was built into
TrieIdle ==
  /\ trie_keys = <<>>
  /\ trie_values = <<>>
  /\ trie_array = <<>>
  /\ trie_size = 0
  /\ trie_first = [built |-> FALSE]
  /\ trie_pc = "new"
  /\ trie_query = NoQuery

\* no dictionary file read
DictIdle ==
  /\ dict_loaded = <<>>
  /\ dict_read = NoQuery

\* no user lexicon read
CostIdle ==
  /\ word_costs = <<>>
  /\ tokenized = <<>>
  /\ cost_pc = "read"
  /\ cost_read = <<>>

\* no matrix.def given
MatIdle ==
  /\ matrix_def = NoQuery
  /\ matrix_file = <<>>
  /\ grammar_matrix = <<>>
  /\ mat_pc = "text"
  /\ mat_query = NoQuery

\* no MeCab OOV plugin set up
OovIdle ==
  /\ oov_plugin = NoQuery
  /\ oov_input = NoQuery
  /\ oov_query = NoQuery

\* no unk.def read
UnkIdle ==
  /\ unk_def = <<>>
  /\ unk_read = NoQuery

\* no DefaultInputTextPlugin set up
NormIdle ==
  /\ norm_plugin = NoQuery
  /\ norm_text = <<>>
  /\ norm_result = NoQuery

\* no ProlongedSoundMarkInputTextPlugin made
PsmIdle ==
  /\ psm_plugin = NoQuery
  /\ psm_text = <<>>
  /\ psm_result = NoQuery

\* none of the calls made
CallIdle == CostIdle /\ MatIdle /\ OovIdle /\ UnkIdle /\ NormIdle /\ PsmIdle

----------------------------------------------------------------------------
\* 0-based access to sequences.

At(s, i) == s[i + 1]

\* s[from..to), the program's half-open slices
Slice(s, from, to) == SubSeq(s, from + 1, to)

Last(s) == s[Len(s)]

\* the sequences over S of length 0..n
SeqsUpTo(S, n) == UNION {[1..k -> S] : k \in 0..n}

RECURSIVE Flatten(_)
Flatten(ss) == IF ss = <<>> THEN <<>> ELSE Head(ss) \o Flatten(Tail(ss))

----------------------------------------------------------------------------
\* Characters.  A character is its Unicode code point.

\* the characters the model draws its texts from:
\* 'a', 'b', U+4EAC (a kanji, 3 bytes), U+30FC (the prolonged sound mark, 3 bytes)
CP == [a |-> 97, b |-> 98, kanji |-> 20140, mark |-> 12540]

\* char::len_utf8
Utf8Len(cp) ==
  IF cp < 128 THEN 1
  ELSE IF cp < 2048 THEN 2
  ELSE IF cp < 65536 THEN 3
  ELSE 4

\* char::encode_utf8 / String::into_bytes for one character
Utf8(cp) ==
  IF cp < 128 THEN <<cp>>
  ELSE IF cp < 2048 THEN <<192 + (cp \div 64), 128 + (cp % 64)>>
  ELSE IF cp < 65536
    THEN <<224 + (cp \div 4096), 128 + ((cp \div 64) % 64), 128 + (cp % 64)>>
  ELSE <<240 + (cp \div 262144), 128 + ((cp \div 4096) % 64),
         128 + ((cp \div 64) % 64), 128 + (cp % 64)>>

\* String::into_bytes
Utf8Bytes(text) == Flatten([i \in 1..Len(text) |-> Utf8(text[i])])

----------------------------------------------------------------------------
\* UTF8InputTextBuilder

NoInput == [built |-> FALSE]

\* UTF8InputTextBuilder::new: text_offsets = (0..=chars().count())
NewTextOffsets(text) == [i \in 1..(Len(text) + 1) |-> i - 1]

\* (mutant) the check of an empty range left out
ReplaceCheckNoEmpty(mlen, start, end) ==
  IF start > mlen THEN "start > length"
  ELSE IF start > end THEN "start > end"
  ELSE "ok"

\* the range checks of replace, in the order the code makes them
ReplaceCheck(mlen, start, end) ==
  IF start > mlen THEN "start > length"
  ELSE IF start > end THEN "start > end"
  ELSE IF start = end THEN "start == end"
  ELSE "ok"

\* text_offsets.iter().enumerate().filter(|(i, _)| i < start + len || end <= i)
FilterOffsets(offs, start, len, end) ==
  LET idx == [i \in 1..Len(offs) |-> i - 1]
      kept == SelectSeq(idx, LAMBDA i : i < start + len \/ end <= i)
  IN [k \in 1..Len(kept) |-> At(offs, kept[k])]

\* Vec::insert(index, value)
InsertAt(s, index, value) ==
  Slice(s, 0, index) \o <<value>> \o Slice(s, index, Len(s))

\* (mutant) an inserted position takes the origin of the character it displaces
RECURSIVE ReplaceLoopDisplaced(_, _, _, _, _, _)
ReplaceLoopDisplaced(offs, start, end, len, offset, i) ==
  IF i >= len THEN offs
  ELSE IF start + i < end
    THEN ReplaceLoopDisplaced([offs EXCEPT ![start + i + 1] = offset],
                              start, end, len, offset, i + 1)
    ELSE ReplaceLoopDisplaced(InsertAt(offs, start + i, At(offs, start + i)),
                              start, end, len, offset, i + 1)

\* for i in 0..len { if start + i < end { set } else { insert } }
RECURSIVE ReplaceLoop(_, _, _, _, _, _)
ReplaceLoop(offs, start, end, len, offset, i) ==
  IF i >= len THEN offs
  ELSE IF start + i < end
    THEN ReplaceLoop([offs EXCEPT ![start + i + 1] = offset], start, end, len, offset, i + 1)
    ELSE ReplaceLoop(InsertAt(offs, start + i, offset), start, end, len, offset, i + 1)

\* UTF8InputTextBuilder::replace: the result and the builder's fields after it
Replace(modified, offs, start, range_end, text) ==
  LET m == Len(modified)
      check == ReplaceCheck(m, start, range_end)
      end == IF range_end > m THEN m ELSE range_end
      len == Len(text)
      offset == At(offs, start)
      shrunk == IF end - start > len THEN FilterOffsets(offs, start, len, end) ELSE offs
  IN IF check # "ok"
       THEN [ok |-> FALSE, err |-> check, modified_text |-> modified, text_offsets |-> offs]
       ELSE [ok |-> TRUE, err |-> "ok",
             modified_text |-> Slice(modified, 0, start) \o text \o Slice(modified, end, m),
             text_offsets |-> ReplaceLoop(shrunk, start, end, len, offset, 0)]

\* build(): one entry of byte_indexes / offsets per byte of every character,
\* then the sentinel at [len]
RECURSIVE BytesOf(_, _, _)
BytesOf(text, values, i) ==
  IF i >= Len(text) THEN <<>>
  ELSE [k \in 1..Utf8Len(At(text, i)) |-> At(values, i)] \o BytesOf(text, values, i + 1)

BuildByteIndexes(modified) ==
  BytesOf(modified, [i \in 1..Len(modified) |-> i - 1], 0) \o <<Len(modified)>>

BuildOffsets(modified, offs) ==
  BytesOf(modified, offs, 0) \o <<Last(offs)>>

\* UTF8InputTextBuilder::build
Build(original, modified, offs) ==
  [built |-> TRUE,
   original_text |-> original,
   modified_text |-> modified,
   bytes |-> Utf8Bytes(modified),
   offsets |-> BuildOffsets(modified, offs),
   byte_indexes |-> BuildByteIndexes(modified)]

----------------------------------------------------------------------------
\* The builder's state machine: new, any replace calls, build.

BuilderAlphabet == {CP.kanji}

\* the characters of replacement texts
ReplacementAlphabet == {CP.b}

NoReplace == [called |-> FALSE]

BuilderInit ==
  /\ original_text \in SeqsUpTo(BuilderAlphabet, MaxTextLen)
  /\ modified_text = original_text
  /\ text_offsets = NewTextOffsets(original_text)
  /\ last_replace = NoReplace
  /\ prefix_deleted = FALSE
  /\ replaces = 0
  /\ built = NoInput

DoReplace(start, end, text) ==
  /\ built = NoInput
  /\ replaces < MaxReplaces
  /\ LET r == Replace(modified_text, text_offsets, start, end, text)
     IN /\ modified_text' = r.modified_text
        /\ text_offsets' = r.text_offsets
        /\ last_replace' = [called |-> TRUE, start |-> start, end |-> end, text |-> text,
                            ok |-> r.ok, err |-> r.err,
                            pre_text |-> modified_text, pre_offsets |-> text_offsets]
        /\ prefix_deleted' = (prefix_deleted \/ (r.ok /\ start = 0 /\ text = <<>>))
  /\ replaces' = replaces + 1
  /\ UNCHANGED <<original_text, built>>
  /\ UNCHANGED notBuilder

DoBuild ==
  /\ built = NoInput
  /\ built' = Build(original_text, modified_text, text_offsets)
  /\ UNCHANGED <<original_text, modified_text, text_offsets, last_replace,
                 prefix_deleted, replaces>>
  /\ UNCHANGED notBuilder

BuilderNext ==
  \/ \E start \in 0..(Len(modified_text) + 1), end \in 0..(Len(modified_text) + 1),
        text \in SeqsUpTo(ReplacementAlphabet, MaxReplLen) :
       DoReplace(start, end, text)
  \/ DoBuild

\* a builder alone: every other component stays as constructed
InitBuilder == BuilderInit /\ CatIdle /\ LexIdle /\ TokIdle /\ LockIdle /\ TrieIdle /\ DictIdle /\ CallIdle

SpecBuilder == InitBuilder /\ [][BuilderNext]_vars

----------------------------------------------------------------------------
\* Properties of the builder (checked under SpecBuilder).

NonDecreasing(s) == \A i \in 1..(Len(s) - 1) : s[i] <= s[i + 1]

\* C7 as stated: after any successful replace calls and build, offsets and
\* byte_indexes are non-decreasing, offsets[0] = 0 and offsets[number of
\* modified bytes] is the number of characters of the original text.
C7_OffsetsMonotoneFromZero ==
  built.built =>
    /\ NonDecreasing(built.offsets)
    /\ NonDecreasing(built.byte_indexes)
    /\ At(built.offsets, 0) = 0
    /\ At(built.offsets, Len(built.bytes)) = Len(built.original_text)

\* What build does guarantee (the part of C7 the code keeps): offsets and
\* byte_indexes are non-decreasing, the last entry of offsets is the number of
\* original characters, and offsets[0] is the origin of the first modified
\* character: 0 unless a replace with start 0 and an empty replacement
\* deleted a prefix of the text.
OffsetsMonotone ==
  built.built =>
    /\ NonDecreasing(built.offsets)
    /\ NonDecreasing(built.byte_indexes)
    /\ At(built.offsets, 0) = At(text_offsets, 0)
    /\ (~prefix_deleted => At(built.offsets, 0) = 0)
    /\ At(built.offsets, Len(built.bytes)) = Len(built.original_text)

\* two successful replaces that changed the length of the text, then build
OffsetsMonotoneReached ==
  /\ built.built
  /\ replaces = 2
  /\ last_replace.ok
  /\ ~prefix_deleted
  /\ Len(modified_text) # Len(original_text)
  /\ Len(built.bytes) > 3

\* C8: after a successful replace(s..e, r) every position s .. s+len(r)-1 of
\* the modified text has the original index text_offsets[s] held before the call.
C8_ReplaceOrigin ==
  (last_replace.called /\ last_replace.ok) =>
    \A i \in last_replace.start..(last_replace.start + Len(last_replace.text) - 1) :
      At(text_offsets, i) = At(last_replace.pre_offsets, last_replace.start)

\* a second replace that inserts: its replacement is longer than the range
C8_Witness ==
  /\ last_replace.called
  /\ last_replace.ok
  /\ replaces = 2
  /\ last_replace.end <= Len(last_replace.pre_text)
  /\ Len(last_replace.text) > last_replace.end - last_replace.start
  /\ last_replace.start > 0

\* C9: replace fails when start > end, start == end or start > length, and a
\* failing replace leaves modified_text and text_offsets as they were.
C9_RangeError ==
  last_replace.called =>
    /\ ( \/ last_replace.start > last_replace.end
         \/ last_replace.start = last_replace.end
         \/ last_replace.start > Len(last_replace.pre_text)
       ) => ~last_replace.ok
    /\ ~last_replace.ok =>
         /\ modified_text = last_replace.pre_text
         /\ text_offsets = last_replace.pre_offsets

\* an empty range inside a non-empty text, refused
C9_Witness ==
  /\ last_replace.called
  /\ ~last_replace.ok
  /\ last_replace.start = last_replace.end
  /\ last_replace.start < Len(last_replace.pre_text)
  /\ last_replace.text # <<>>

----------------------------------------------------------------------------
\* CharacterCategory (dictionary_lib/character_category.rs)

\* Longest list of ranges read from a character definition.
MaxRanges == 2
\* Code points 0 .. MaxCodePoint are looked up; a range ends at MaxCodePoint at most.
MaxCodePoint == 3

\* CharacterCategoryRange::new
CharacterCategoryRange(low, high, categories) ==
  [low |-> low, high |-> high, categories |-> categories]

\* CharacterCategoryRange::contains
Contains(range, cp) == range.low <= cp /\ cp < range.high

\* CharacterCategoryRange::lower
Lower(range, cp) == range.high <= cp

\* the key of sort_by_key(|r| r.high) / sort_by_key(|r| r.low)
KeyOf(range, key) == IF key = "high" THEN range.high ELSE range.low

\* Vec::sort_by_key: a stable sort, by insertion
RECURSIVE InsertByKey(_, _, _)
InsertByKey(sorted, x, key) ==
  IF sorted = <<>> THEN <<x>>
  ELSE IF KeyOf(Last(sorted), key) <= KeyOf(x, key) THEN Append(sorted, x)
  ELSE Append(InsertByKey(SubSeq(sorted, 1, Len(sorted) - 1), x, key), Last(sorted))

RECURSIVE SortByKey(_, _)
SortByKey(s, key) ==
  IF s = <<>> THEN <<>>
  ELSE InsertByKey(SortByKey(SubSeq(s, 1, Len(s) - 1), key), Last(s), key)

\* the elements of a HashSet in some iteration order
RECURSIVE SetToSeq(_)
SetToSeq(S) ==
  IF S = {} THEN <<>>
  ELSE LET x == CHOOSE x \in S : TRUE IN <<x>> \o SetToSeq(S \ {x})

\* the elements of a sequence as a set
Range(s) == {s[i] : i \in 1..Len(s)}

\* states.iter().position(|c| c == category) then states.remove(i)
RemoveFirst(states, category) ==
  IF \E i \in 1..Len(states) : states[i] = category
    THEN LET i == CHOOSE i \in 1..Len(states) :
                    /\ states[i] = category
                    /\ \A j \in 1..(i - 1) : states[j] # category
         IN SubSeq(states, 1, i - 1) \o SubSeq(states, i + 1, Len(states))
    ELSE states

\* for category in left.categories.iter() { remove its first occurrence }
RECURSIVE RemoveAll(_, _)
RemoveAll(states, categories) ==
  IF categories = <<>> THEN states
  ELSE RemoveAll(RemoveFirst(states, Head(categories)), Tail(categories))

\* BinaryHeap<Reverse<&range>>::pop: an index of a range of least high.  The
\* heap orders ranges by high alone, so among equal highs the one popped is
\* left to the heap's layout: tie picks the earliest or the latest pushed.
PopIndex(left_chain, tie) ==
  LET least == {i \in 1..Len(left_chain) :
                  \A j \in 1..Len(left_chain) : left_chain[i].high <= left_chain[j].high}
  IN IF tie = "earliest"
       THEN CHOOSE i \in least : \A j \in least : i <= j
       ELSE CHOOSE i \in least : \A j \in least : i >= j

RemoveAt(s, i) == SubSeq(s, 1, i - 1) \o SubSeq(s, i + 1, Len(s))

\* the loop of compile (lines 114-162): left_chain is the heap's content in the
\* order pushed, right_chain the sorted ranges not yet entered
RECURSIVE CompileLoop(_, _, _, _, _, _)
CompileLoop(left_chain, right_chain, states, pivot, new_range_list, tie) ==
  IF left_chain = <<>>
    THEN IF right_chain = <<>>
           THEN new_range_list
           ELSE LET right == Head(right_chain)
                IN CompileLoop(<<right>>, Tail(right_chain),
                               states \o SetToSeq(right.categories),
                               right.low, new_range_list, tie)
    ELSE LET k == PopIndex(left_chain, tie)
             left == left_chain[k]
             rest == RemoveAt(left_chain, k)
             left_end == left.high
         IN IF right_chain = <<>> \/ left_end <= Head(right_chain).low
              THEN CompileLoop(rest, right_chain,
                               RemoveAll(states, SetToSeq(left.categories)),
                               left_end,
                               Append(new_range_list,
                                      CharacterCategoryRange(pivot, left_end, Range(states))),
                               tie)
              ELSE LET right == Head(right_chain)
                   IN CompileLoop(rest \o <<right, left>>, Tail(right_chain),
                                  states \o SetToSeq(right.categories),
                                  right.low,
                                  Append(new_range_list,
                                         CharacterCategoryRange(pivot, right.low, Range(states))),
                                  tie)

\* the merge of compile (lines 163-174)
RECURSIVE MergeRanges(_, _, _)
MergeRanges(range, rest, out) ==
  IF rest = <<>> THEN Append(out, range)
  ELSE LET irange == Head(rest)
       IN IF irange.low = range.high /\ irange.categories = range.categories
            THEN MergeRanges(CharacterCategoryRange(range.low, irange.high, range.categories),
                             Tail(rest), out)
            ELSE MergeRanges(irange, Tail(rest), Append(out, range))

\* CharacterCategory::compile: the new range_list, or a panic when
\* new_range_list.remove(0) finds the list empty
Compile(input, tie) ==
  LET sorted == SortByKey(SortByKey(input, "high"), "low")
      new_range_list == CompileLoop(<<>>, sorted, <<>>, 0, <<>>, tie)
  IN IF new_range_list = <<>>
       THEN [panicked |-> TRUE, range_list |-> <<>>]
       ELSE [panicked |-> FALSE,
             range_list |-> MergeRanges(Head(new_range_list), Tail(new_range_list), <<>>)]

\* the binary search of get_category_types (lines 81-100)
RECURSIVE SearchRange(_, _, _, _, _)
SearchRange(ranges, code_point, start, end, pivot) ==
  IF pivot >= Len(ranges) THEN {"DEFAULT"}
  ELSE LET range == At(ranges, pivot)
           new_start == IF Lower(range, code_point) THEN pivot ELSE start
           new_end == IF Lower(range, code_point) THEN end ELSE pivot
           new_pivot == (new_start + new_end) \div 2
       IN IF Contains(range, code_point) THEN range.categories
          ELSE IF new_pivot = pivot THEN {"DEFAULT"}
          ELSE SearchRange(ranges, code_point, new_start, new_end, new_pivot)

\* CharacterCategory::get_category_types
GetCategoryTypes(ranges, code_point) ==
  SearchRange(ranges, code_point, 0, Len(ranges), Len(ranges) \div 2)

----------------------------------------------------------------------------
\* The character category's state machine: the reader pushes the ranges of a
\* definition, compile runs once, then code points are looked up.

\* the category sets a definition line may give
CategorySets == {{"KANJI"}, {"NUMERIC"}, {"KANJI", "NUMERIC"}}

\* the ranges a line of the definition may give: low < high (lines 206-208)
InputRanges ==
  {r \in [low : 0..MaxCodePoint, high : 0..MaxCodePoint, categories : CategorySets] :
     r.low < r.high}

CatInit ==
  /\ cat_input \in SeqsUpTo(InputRanges, MaxRanges)
  /\ range_list = cat_input
  /\ cat_pc = "read"
  /\ cat_query = NoQuery

\* char_category.compile() at the end of read_character_definition_from_reader
DoCompile(tie) ==
  /\ cat_pc = "read"
  /\ LET c == Compile(range_list, tie)
     IN /\ range_list' = c.range_list
        /\ cat_pc' = IF c.panicked THEN "panicked" ELSE "compiled"
  /\ UNCHANGED <<cat_input, cat_query>>
  /\ UNCHANGED notCat

DoGetCategoryTypes(code_point) ==
  /\ cat_pc = "compiled"
  /\ cat_query' = [called |-> TRUE, code_point |-> code_point,
                   types |-> GetCategoryTypes(range_list, code_point)]
  /\ UNCHANGED <<cat_input, range_list, cat_pc>>
  /\ UNCHANGED notCat

CatNext ==
  \/ \E tie \in {"earliest", "latest"} : DoCompile(tie)
  \/ \E code_point \in 0..MaxCodePoint : DoGetCategoryTypes(code_point)

InitCat == CatInit /\ BuilderIdle /\ LexIdle /\ TokIdle /\ LockIdle /\ TrieIdle /\ DictIdle /\ CallIdle

SpecCat == InitCat /\ [][CatNext]_vars

----------------------------------------------------------------------------
\* Properties of the character category (checked under SpecCat).

\* the union of the category sets of the input ranges that contain cp
UnionOfContaining(input, cp) ==
  UNION {input[i].categories : i \in {j \in 1..Len(input) : Contains(input[j], cp)}}

SomeRangeContains(input, cp) == \E i \in 1..Len(input) : Contains(input[i], cp)

ExpectedTypes(input, cp) ==
  IF SomeRangeContains(input, cp) THEN UnionOfContaining(input, cp) ELSE {"DEFAULT"}

\* C10 as stated: for any list of ranges compile yields a table, and
\* get_category_types(cp) on it is the union of the category sets of the input
\* ranges containing cp, {DEFAULT} when none contains it.
C10_AnyListCompiles ==
  /\ cat_pc # "panicked"
  /\ cat_query.called => cat_query.types = ExpectedTypes(cat_input, cat_query.code_point)

\* What compile does guarantee (the part of C10 the code keeps): for any
\* non-empty list of ranges, get_category_types(cp) after compile is the union
\* of the category sets of the input ranges containing cp, {DEFAULT} when none
\* contains it; compile of an empty list panics.
CategoryUnion ==
  /\ cat_pc = "panicked" <=> (cat_pc # "read" /\ cat_input = <<>>)
  /\ cat_pc = "compiled" =>
       \A cp \in 0..MaxCodePoint :
         GetCategoryTypes(range_list, cp) = ExpectedTypes(cat_input, cp)
  /\ cat_query.called => cat_query.types = ExpectedTypes(cat_input, cat_query.code_point)

\* two overlapping ranges of different categories, given out of order, and a
\* code point in both
CategoryUnionReached ==
  /\ cat_query.called
  /\ Len(cat_input) = 2
  /\ cat_input[1].low > cat_input[2].low
  /\ cat_input[1].high > cat_input[2].high
  /\ Contains(cat_input[1], cat_query.code_point)
  /\ Contains(cat_input[2], cat_query.code_point)
  /\ cat_query.types = {"KANJI", "NUMERIC"}
  /\ Len(range_list) = 3

----------------------------------------------------------------------------
\* Word ids.  A usize or i32 word id n is held as its two base-2^28 digits,
\* [hi |-> n >> 28, lo |-> n & 0x0FFF_FFFF]: an integer of the checker is too
\* narrow for a dictionary index of 8 or more shifted left by 28.

\* 0x0FFF_FFFF
WordIdMask == 268435455
\* MAX_DICTIONARIES
MAX_DICTIONARIES == 16

Num(hi, lo) == [hi |-> hi, lo |-> lo]

\* a | b on non-negative integers
RECURSIVE BitOr(_, _)
BitOr(a, b) ==
  IF a = 0 THEN b
  ELSE IF b = 0 THEN a
  ELSE 2 * BitOr(a \div 2, b \div 2) + (IF a % 2 = 1 \/ b % 2 = 1 THEN 1 ELSE 0)

\* (mutant) the dictionary index is added to the word id, not shifted
PackWordIdUnshifted(dict_id, word_id) == Num(word_id.hi, BitOr(dict_id, word_id.lo))

\* (dict_id << 28) | word_id
PackWordId(dict_id, word_id) == Num(BitOr(dict_id, word_id.hi), BitOr(0, word_id.lo))

\* LexiconSet::build_word_id
BuildWordId(nlexicons, dict_id, word_id) ==
  IF word_id.hi > 0 \/ word_id.lo > WordIdMask
    THEN [panicked |-> TRUE, id |-> Num(0, 0)]
  ELSE IF dict_id > nlexicons
    THEN [panicked |-> TRUE, id |-> Num(0, 0)]
  ELSE [panicked |-> FALSE, id |-> PackWordId(dict_id, word_id)]

\* LexiconSet::get_dictionary_id: word_id >> 28
GetDictionaryId(word_id) == word_id.hi

\* get_word_id: 0x0FFF_FFFF & word_id
GetWordId(word_id) == Num(0, word_id.lo)

----------------------------------------------------------------------------
\* DoubleArrayLexicon (dictionary_lib/double_array_lexicon.rs).  A lexicon is
\* [id, file, words, extra_ids]: its random id, the dictionary file it was
\* read from and that file's tables.  words[k + 1] holds the parameters and
\* the word info of local word id k and the key the trie stores for it;
\* extra_ids are entries of the word id table whose 32-bit id is not the index
\* of a word.

WordInfo(surface, pos_id, a_unit_split, b_unit_split) ==
  [surface |-> surface, head_word_length |-> Len(surface), pos_id |-> pos_id,
   a_unit_split |-> a_unit_split, b_unit_split |-> b_unit_split]

Word(surface, left_id, right_id, cost, info) ==
  [surface |-> surface, left_id |-> left_id, right_id |-> right_id, cost |-> cost,
   info |-> info]

\* The dictionary file number f (0: the system dictionary).  Every file holds
\* the word "a" under local id 0 and a second word under local id 1, "ab" in
\* the odd files and "b" in the even ones, each with parameters that name the
\* file; every fourth file's word id table also holds, for "c", a 32-bit id
\* above 0x0FFF_FFFF.  A user file defines one part of speech of its own.
DictionaryFile(f) ==
  [words |-> << Word(Utf8Bytes(<<CP.a>>), f, f + 1, 10 * f,
                     WordInfo(Utf8Bytes(<<CP.a>>), 0, <<>>, <<>>)),
                Word(IF f % 2 = 1 THEN Utf8Bytes(<<CP.a, CP.b>>) ELSE Utf8Bytes(<<CP.b>>),
                     f, f + 1, 10 * f + 1,
                     WordInfo(IF f % 2 = 1 THEN Utf8Bytes(<<CP.a, CP.b>>)
                                           ELSE Utf8Bytes(<<CP.b>>),
                              IF f = 0 THEN 1 ELSE 2,
                              IF f = 0 THEN <<>> ELSE <<Num(1, 0), Num(0, 1)>>, <<>>)) >>,
   extra_ids |-> IF f % 4 = 2
                   THEN <<[surface |-> Utf8Bytes(<<CP.kanji>>), word_id |-> Num(1, 0)]>>
                   ELSE <<>>,
   pos_count |-> IF f = 0 THEN 2 ELSE 1]

\* DoubleArrayLexicon::from_reader: a random id and the tables read from file f
Lexicon(f, id) ==
  [id |-> id, file |-> f, words |-> DictionaryFile(f).words,
   extra_ids |-> DictionaryFile(f).extra_ids]

\* word_params and word_infos, by local word id
Words(lexicon) == lexicon.words

IsPrefix(key, text) == Len(key) <= Len(text) /\ SubSeq(text, 1, Len(key)) = key

\* the ids the word id table gives for one key, in table order
IdsOfKey(lexicon, key) ==
  LET words == SelectSeq([k \in 1..Len(Words(lexicon)) |-> k - 1],
                         LAMBDA k : At(Words(lexicon), k).surface = key)
      extra == SelectSeq(lexicon.extra_ids, LAMBDA e : e.surface = key)
  IN [i \in 1..Len(words) |-> Num(0, words[i])] \o [i \in 1..Len(extra) |-> extra[i].word_id]

\* Lexicon::lookup: the trie's common-prefix search of text[offset..], shortest
\* key first, each hit expanded to its word ids, length += offset
LexiconLookup(lexicon, text, offset) ==
  LET key == Slice(text, offset, Len(text))
  IN Flatten([l \in 1..Len(key) |->
       LET ids == IdsOfKey(lexicon, SubSeq(key, 1, l))
       IN [i \in 1..Len(ids) |-> [word_id |-> ids[i], length |-> l + offset]]])

\* word_params.get_left_id / get_right_id / get_cost, word_infos.get_word_info
LexiconWord(lexicon, word_id) == At(Words(lexicon), word_id.lo)

----------------------------------------------------------------------------
\* LexiconSet (dictionary_lib/lexicon_set.rs)

\* (mutant) full only above MAX_DICTIONARIES
IsFullAbove(lexs) == Len(lexs) > MAX_DICTIONARIES

\* LexiconSet::is_full
IsFull(lexs) == Len(lexs) >= MAX_DICTIONARIES

\* lexicons.contains(&lexicon): DoubleArrayLexicon's equality is by id
ContainsLexicon(lexs, lexicon) == \E i \in 1..Len(lexs) : lexs[i].id = lexicon.id

\* LexiconSet::_lookup: indices 1 .. len-1, then 0
LookupIndices(lexs) == [i \in 1..(Len(lexs) - 1) |-> i] \o <<0>>

\* LexiconSet::lookup (with _lookup): the pairs returned, or a panic of build_word_id
LexiconSetLookup(lexs, text, offset) ==
  IF Len(lexs) = 1
    THEN [panicked |-> FALSE, pairs |-> LexiconLookup(lexs[1], text, offset)]
    ELSE LET indices == LookupIndices(lexs)
             per == [k \in 1..Len(indices) |->
                       LET dict_id == indices[k]
                           pairs == LexiconLookup(At(lexs, dict_id), text, offset)
                       IN [i \in 1..Len(pairs) |->
                             [built |-> BuildWordId(Len(lexs), dict_id, pairs[i].word_id),
                              length |-> pairs[i].length]]]
             all == Flatten(per)
         IN [panicked |-> \E i \in 1..Len(all) : all[i].built.panicked,
             pairs |-> [i \in 1..Len(all) |->
                          [word_id |-> all[i].built.id, length |-> all[i].length]]]

\* LexiconSet::get_left_id / get_right_id / get_cost
GetLeftId(lexs, word_id) ==
  LexiconWord(At(lexs, GetDictionaryId(word_id)), GetWordId(word_id)).left_id
GetRightId(lexs, word_id) ==
  LexiconWord(At(lexs, GetDictionaryId(word_id)), GetWordId(word_id)).right_id
GetCost(lexs, word_id) ==
  LexiconWord(At(lexs, GetDictionaryId(word_id)), GetWordId(word_id)).cost

\* v > 0 for an i32 held as its digits: the sign bit is bit 3 of hi
IsPositive(v) == v.hi < 8 /\ (v.hi > 0 \/ v.lo > 0)

\* LexiconSet::convert_split
ConvertSplit(lexs, split, dict_id) ==
  [i \in 1..Len(split) |->
     IF IsPositive(split[i]) /\ GetDictionaryId(split[i]) > 0
       THEN BuildWordId(Len(lexs), dict_id, GetWordId(split[i])).id
       ELSE split[i]]

\* LexiconSet::get_word_info
GetWordInfo(lexs, offsets, word_id) ==
  LET dict_id == GetDictionaryId(word_id)
      word_info == LexiconWord(At(lexs, dict_id), GetWordId(word_id)).info
      pos_id == IF dict_id > 0 /\ word_info.pos_id >= At(offsets, 1)
                  THEN word_info.pos_id - At(offsets, 1) + At(offsets, dict_id)
                  ELSE word_info.pos_id
  IN [word_info EXCEPT !.pos_id = pos_id,
                       !.a_unit_split = ConvertSplit(lexs, word_info.a_unit_split, dict_id),
                       !.b_unit_split = ConvertSplit(lexs, word_info.b_unit_split, dict_id)]

----------------------------------------------------------------------------
\* Dictionary::setup: the system dictionary, then the configured user
\* dictionaries one by one; afterwards lookups on the lexicon set.

\* Most user dictionaries a configuration names.
MaxUserDicts == 17
\* Most lexicons of one setup whose random id equals that of an earlier lexicon.
MaxIdCollisions == 1

\* the texts looked up
LookupTexts == {Utf8Bytes(<<CP.a, CP.b>>), Utf8Bytes(<<CP.b, CP.a>>), Utf8Bytes(<<CP.kanji>>)}

\* LexiconSet::new(system lexicon); config.user_dict_paths()
LexInit ==
  /\ lexicons = <<Lexicon(0, 0)>>
  /\ pos_offsets = <<0>>
  /\ pos_list_len = DictionaryFile(0).pos_count
  /\ \E n \in 0..MaxUserDicts : user_dict_paths = [i \in 1..n |-> i]
  /\ id_collisions = 0
  /\ lex_pc = "setup"
  /\ lex_lookup = [called |-> FALSE]
  /\ lex_get = [called |-> FALSE]

\* one turn of the loop of Dictionary::setup (lines 97-117): read_user_dictionary,
\* LexiconSet::add, Grammar::add_pos_list.  The lexicon's id is random: it is
\* new (named after the file here) or, rarely, that of a lexicon already added.
ReadUserDictionary(id) ==
  /\ lex_pc = "setup"
  /\ user_dict_paths # <<>>
  /\ LET f == Head(user_dict_paths)
         user_lexicon == Lexicon(f, id)
     IN IF IsFull(lexicons)
          THEN /\ lex_pc' = "too_many"
               /\ UNCHANGED <<lexicons, pos_offsets, pos_list_len, user_dict_paths,
                              id_collisions>>
          ELSE /\ id \in {f} \cup (IF id_collisions < MaxIdCollisions
                                     THEN {lexicons[1].id} ELSE {})
               /\ IF ContainsLexicon(lexicons, user_lexicon)
                    THEN /\ id_collisions' = id_collisions + 1
                         /\ UNCHANGED <<lexicons, pos_offsets>>
                    ELSE /\ lexicons' = Append(lexicons, user_lexicon)
                         /\ pos_offsets' = Append(pos_offsets, pos_list_len)
                         /\ UNCHANGED id_collisions
               /\ pos_list_len' = pos_list_len + DictionaryFile(f).pos_count
               /\ user_dict_paths' = Tail(user_dict_paths)
               /\ UNCHANGED lex_pc
  /\ UNCHANGED <<lex_lookup, lex_get>>
  /\ UNCHANGED notLex

\* Dictionary::setup returns Ok(Dictionary::new(..)) when the loop is over
SetupDone ==
  /\ lex_pc = "setup"
  /\ user_dict_paths = <<>>
  /\ lex_pc' = "ready"
  /\ UNCHANGED <<lexicons, pos_offsets, pos_list_len, user_dict_paths, id_collisions,
                 lex_lookup, lex_get>>
  /\ UNCHANGED notLex

\* LexiconSet::lookup(text, offset)
DoLookup(text, offset) ==
  /\ lex_pc = "ready"
  /\ LET r == LexiconSetLookup(lexicons, text, offset)
     IN /\ lex_lookup' = [called |-> TRUE, text |-> text, offset |-> offset,
                          panicked |-> r.panicked,
                          pairs |-> IF r.panicked THEN <<>> ELSE r.pairs]
        /\ lex_pc' = IF r.panicked THEN "panicked" ELSE "looked"
  /\ lex_get' = [called |-> FALSE]
  /\ UNCHANGED <<lexicons, pos_offsets, pos_list_len, user_dict_paths, id_collisions>>
  /\ UNCHANGED notLex

\* get_left_id, get_right_id, get_cost, get_word_info and get_dictionary_id on
\* the k-th word id the last lookup returned
DoGet(k) ==
  /\ lex_pc = "looked"
  /\ k \in 1..Len(lex_lookup.pairs)
  /\ LET word_id == lex_lookup.pairs[k].word_id
     IN lex_get' = [called |-> TRUE, k |-> k, word_id |-> word_id,
                    dictionary_id |-> GetDictionaryId(word_id),
                    left_id |-> GetLeftId(lexicons, word_id),
                    right_id |-> GetRightId(lexicons, word_id),
                    cost |-> GetCost(lexicons, word_id),
                    word_info |-> GetWordInfo(lexicons, pos_offsets, word_id)]
  /\ UNCHANGED <<lexicons, pos_offsets, pos_list_len, user_dict_paths, id_collisions,
                 lex_pc, lex_lookup>>
  /\ UNCHANGED notLex

\* the caller is done with the pairs lookup returned
DropPairs ==
  /\ lex_pc = "looked"
  /\ lex_pc' = "ready"
  /\ lex_lookup' = [called |-> FALSE]
  /\ lex_get' = [called |-> FALSE]
  /\ UNCHANGED <<lexicons, pos_offsets, pos_list_len, user_dict_paths, id_collisions>>
  /\ UNCHANGED notLex

LexNext ==
  \/ \E id \in 0..MaxUserDicts : ReadUserDictionary(id)
  \/ SetupDone
  \/ \E text \in LookupTexts, offset \in 0..1 : DoLookup(text, offset)
  \/ \E k \in 1..(2 * MAX_DICTIONARIES) : DoGet(k)
  \/ DropPairs

InitLex == LexInit /\ BuilderIdle /\ CatIdle /\ TokIdle /\ LockIdle /\ TrieIdle /\ DictIdle /\ CallIdle

SpecLex == InitLex /\ [][LexNext]_vars

----------------------------------------------------------------------------
\* Properties of the lexicon set (checked under SpecLex).

\* the word of lexicon number d with local id w is stored under a prefix of
\* text[offset..] that ends at byte `length`
TrieMatched(d, w, text, offset, length) ==
  /\ d < Len(lexicons)
  /\ w < Len(Words(At(lexicons, d)))
  /\ IsPrefix(At(Words(At(lexicons, d)), w).surface, Slice(text, offset, Len(text)))
  /\ length = offset + Len(At(Words(At(lexicons, d)), w).surface)

\* C5: in a set of the system dictionary and 1 to 15 user dictionaries, every
\* word id lookup returns has in its top 4 bits the index of the dictionary
\* whose trie matched and in its low 28 bits that dictionary's local word id,
\* every match of every dictionary is returned under its own id, and the
\* getters applied to a returned id read the word of exactly that dictionary.
C5_WordIdNamesItsDictionary ==
  /\ (lex_lookup.called /\ ~lex_lookup.panicked /\ Len(lexicons) >= 2) =>
       /\ \A k \in 1..Len(lex_lookup.pairs) :
            LET p == lex_lookup.pairs[k]
            IN /\ p.word_id.hi < MAX_DICTIONARIES
               /\ p.word_id.lo <= WordIdMask
               /\ TrieMatched(p.word_id.hi, p.word_id.lo,
                              lex_lookup.text, lex_lookup.offset, p.length)
       /\ \A d \in 0..(Len(lexicons) - 1) :
            \A w \in 0..(Len(Words(At(lexicons, d))) - 1) :
              IsPrefix(At(Words(At(lexicons, d)), w).surface,
                       Slice(lex_lookup.text, lex_lookup.offset, Len(lex_lookup.text)))
                => \E k \in 1..Len(lex_lookup.pairs) :
                     lex_lookup.pairs[k].word_id = Num(d, w)
       /\ \A j, k \in 1..Len(lex_lookup.pairs) :
            j # k => lex_lookup.pairs[j].word_id # lex_lookup.pairs[k].word_id
  /\ (lex_get.called /\ Len(lexicons) >= 2) =>
       LET d == lex_get.word_id.hi
           word == At(Words(At(lexicons, d)), lex_get.word_id.lo)
       IN /\ lex_get.dictionary_id = d
          /\ lex_get.left_id = word.left_id
          /\ lex_get.right_id = word.right_id
          /\ lex_get.cost = word.cost
          /\ lex_get.word_info.surface = word.info.surface
          /\ lex_get.left_id = At(lexicons, d).file
          /\ lex_get.cost = 10 * At(lexicons, d).file + lex_get.word_id.lo

\* the second word of the fifteenth user dictionary, in a full set
C5_Witness ==
  /\ lex_get.called
  /\ Len(lexicons) = MAX_DICTIONARIES
  /\ lex_get.dictionary_id = MAX_DICTIONARIES - 1
  /\ lex_get.word_id.lo = 1
  /\ lex_get.left_id = At(lexicons, MAX_DICTIONARIES - 1).file
  /\ Len(lex_lookup.pairs) > MAX_DICTIONARIES

\* C6: the lexicon set never holds more than 16 lexicons, and reading a user
\* dictionary when 16 are loaded fails with too-many-dictionaries and aborts
\* setup: nothing more is read or added, and setup never becomes ready.
C6_AtMostSixteen ==
  /\ [](Len(lexicons) <= MAX_DICTIONARIES)
  /\ [][ (lex_pc = "setup" /\ user_dict_paths # <<>> /\ Len(lexicons) = MAX_DICTIONARIES)
           => (lex_pc' = "too_many" /\ lexicons' = lexicons) ]_vars
  /\ [][ lex_pc = "too_many" => UNCHANGED lexVars ]_vars
  /\ [](lex_pc = "too_many" => (Len(lexicons) = MAX_DICTIONARIES /\ user_dict_paths # <<>>))

\* sixteen user dictionaries configured: the sixteenth is refused
C6_Witness ==
  /\ lex_pc = "too_many"
  /\ Len(lexicons) = MAX_DICTIONARIES
  /\ Len(user_dict_paths) = 1
  /\ id_collisions = 0

----------------------------------------------------------------------------
\* UTF8InputText (utf8_input_text.rs) and the tables build() adds to it.

\* UTF8InputTextBuilder::get_char_category_types
CharCategoryTypes(ranges, text) ==
  [i \in 1..Len(text) |-> GetCategoryTypes(ranges, text[i])]

\* (mutant) every character may begin a word
BuildCanBowListAlways(char_categories) == [i \in 1..Len(char_categories) |-> TRUE]

\* build_can_bow_list
BuildCanBowList(char_categories) ==
  [i \in 1..Len(char_categories) |->
     IF i = 1 THEN TRUE
     ELSE IF char_categories[i] \cap {"ALPHA", "GREEK", "CYRILLIC"} # {}
       THEN char_categories[i] \cap char_categories[i - 1] = {}
       ELSE TRUE]

\* get_char_category_continuous_length: the loop for len in 1..len()-offset
RECURSIVE ContinuousLength(_, _, _, _)
ContinuousLength(char_categories, offset, len, continuous_category) ==
  IF len >= Len(char_categories) - offset THEN Len(char_categories) - offset
  ELSE LET next == continuous_category \cap At(char_categories, offset + len)
       IN IF next = {} THEN len
          ELSE ContinuousLength(char_categories, offset, len + 1, next)

\* get_char_category_continuities: per byte, the bytes left of its category run
RECURSIVE CharCategoryContinuities(_, _, _)
CharCategoryContinuities(text, char_categories, i) ==
  IF i >= Len(char_categories) THEN <<>>
  ELSE LET next == i + ContinuousLength(char_categories, i, 1, At(char_categories, i))
           len == Len(Utf8Bytes(Slice(text, i, next)))
       IN [k \in 1..len |-> len - (k - 1)] \o CharCategoryContinuities(text, char_categories, next)

\* UTF8InputTextBuilder::build with the grammar's character category
BuildInputText(original, modified, offs, ranges) ==
  LET char_categories == CharCategoryTypes(ranges, modified)
  IN Build(original, modified, offs) @@
     [char_categories |-> char_categories,
      char_category_continuities |-> CharCategoryContinuities(modified, char_categories, 0),
      can_bow_list |-> BuildCanBowList(char_categories)]

\* is_char_alignment: (bytes[index] & 0xC0) != 0x80
IsCharAlignment(input, index) == (At(input.bytes, index) \div 64) % 4 # 2

\* UTF8InputText::can_bow
CanBow(input, idx) ==
  IsCharAlignment(input, idx) /\ At(input.can_bow_list, At(input.byte_indexes, idx))

\* InputText::get_word_candidate_length
GetWordCandidateLength(input, index) ==
  LET stops == {i \in (index + 1)..(Len(input.bytes) - 1) : CanBow(input, i)}
  IN IF stops = {} THEN Len(input.bytes) - index
     ELSE (CHOOSE i \in stops : \A j \in stops : i <= j) - index

\* InputText::get_char_category_types(start, None)
CharCategoryTypesAt(input, start) == At(input.char_categories, At(input.byte_indexes, start))

\* InputText::get_char_category_continuous_length
GetCharCategoryContinuousLength(input, index) == At(input.char_category_continuities, index)

\* InputText::get_code_points_offset_length
GetCodePointsOffsetLength(input, index, code_point_offset) ==
  LET target == At(input.byte_indexes, index) + code_point_offset
      hits == {i \in index..(Len(input.bytes) - 1) : At(input.byte_indexes, i) >= target}
  IN IF hits = {} THEN Len(input.bytes) - index
     ELSE (CHOOSE i \in hits : \A j \in hits : i <= j) - index

----------------------------------------------------------------------------
\* ProlongedSoundMarkInputTextPlugin::rewrite on a builder [ok, err,
\* modified_text, text_offsets]: the loop over the characters of the text the
\* builder held at the call, then the run at the end of the text.

RECURSIVE ProlongedLoop(_, _, _, _, _, _, _)
ProlongedLoop(plugin, text, builder, i, offset, is_psm, m_start_idx) ==
  IF ~builder.ok THEN builder
  ELSE IF i >= Len(text)
    THEN IF is_psm /\ Len(text) - m_start_idx > 1
           THEN Replace(builder.modified_text, builder.text_offsets,
                        m_start_idx - offset, Len(text) - offset, plugin.replace_symbol)
           ELSE builder
  ELSE IF ~is_psm /\ At(text, i) \in plugin.psm_set
    THEN ProlongedLoop(plugin, text, builder, i + 1, offset, TRUE, i)
  ELSE IF is_psm /\ At(text, i) \notin plugin.psm_set
    THEN IF i - m_start_idx > 1
           THEN ProlongedLoop(plugin, text,
                              Replace(builder.modified_text, builder.text_offsets,
                                      m_start_idx - offset, i - offset, plugin.replace_symbol),
                              i + 1, offset + (i - m_start_idx - 1), FALSE, m_start_idx)
           ELSE ProlongedLoop(plugin, text, builder, i + 1, offset, FALSE, m_start_idx)
  ELSE ProlongedLoop(plugin, text, builder, i + 1, offset, is_psm, m_start_idx)

\* InputTextPlugin::rewrite
Rewrite(plugin, builder) ==
  ProlongedLoop(plugin, builder.modified_text, builder, 0, 0, FALSE, Len(builder.modified_text))

\* the loop of tokenize over input_text_plugins (lines 169-173): the builder
\* after the last plugin, or the builder a plugin failed on
RECURSIVE RewriteAll(_, _, _)
RewriteAll(plugins, builder, k) ==
  IF k > Len(plugins) \/ ~builder.ok THEN builder
  ELSE RewriteAll(plugins, Rewrite(plugins[k], builder), k + 1)

----------------------------------------------------------------------------
\* Grammar (dictionary_lib/grammar.rs)

\* INHIBITED_CONNECTION
INHIBITED_CONNECTION == 32767

\* Grammar::get_connect_cost(left, right) = matrix_view[right][left]
GetConnectCost(matrix, left, right) == At(At(matrix, right), left)

\* i32::max_value()
I32Max == 2147483647

\* a + b on i32: the wrapped sum and whether it overflowed
AddI32(a, b) ==
  IF b > 0 /\ a > I32Max - b
    THEN [overflow |-> TRUE, value |-> (a - I32Max - 1) + (b - I32Max - 1)]
  ELSE IF b < 0 /\ a < (-I32Max - 1) - b
    THEN [overflow |-> TRUE, value |-> (a + I32Max + 1) + (b + I32Max + 1)]
  ELSE [overflow |-> FALSE, value |-> a + b]

----------------------------------------------------------------------------
\* LatticeNode (lattice_node.rs).  An Arc<Mutex<LatticeNode>> held by another
\* node is the place of that node in the lattice: [end, index] names
\* end_lists[end][index].

NoNode == [some |-> FALSE, end |-> 0, index |-> 0]
NodeRef(end, index) == [some |-> TRUE, end |-> end, index |-> index]

NoWordInfo == [some |-> FALSE, info |-> WordInfo(<<>>, -1, <<>>, <<>>)]

\* LatticeNode::empty
LatticeNodeEmpty(id, left_id, right_id, cost) ==
  [id |-> id, start |-> 0, end |-> 0, total_cost |-> 0, word_id |-> Num(0, 0),
   is_oov |-> FALSE, is_defined |-> FALSE, best_previous_node |-> NoNode,
   is_connected_to_bos |-> FALSE, extra_word_info |-> NoWordInfo, has_lexicon |-> FALSE,
   left_id |-> left_id, right_id |-> right_id, cost |-> cost]

\* LatticeNode::new
LatticeNodeNew(id, left_id, right_id, cost, word_id) ==
  [LatticeNodeEmpty(id, left_id, right_id, cost) EXCEPT
     !.word_id = word_id, !.is_defined = TRUE, !.has_lexicon = TRUE]

\* build_undefined_word_info
UndefinedWordInfo == WordInfo(<<>>, -1, <<>>, <<>>)

\* LatticeNode::get_word_info
NodeWordInfo(node) ==
  IF ~node.is_defined THEN UndefinedWordInfo
  ELSE IF node.extra_word_info.some THEN node.extra_word_info.info
  ELSE GetWordInfo(lexicons, pos_offsets, node.word_id)

----------------------------------------------------------------------------
\* Lattice (lattice.rs)

\* Lattice::new: end_lists[0] holds BOS, made from the grammar's bos_parameter
LatticeNew(bos_id) ==
  [size |-> 0, capacity |-> 0, eos_node |-> <<>>,
   end_lists |-> << <<[LatticeNodeEmpty(bos_id, 0, 0, 0) EXCEPT !.is_connected_to_bos = TRUE]>> >>]

\* Lattice::resize (with expand); eos_node is Some(node): a list of one node
Resize(lattice, size, eos_id) ==
  LET expanded == IF size > lattice.capacity
                    THEN [lattice EXCEPT
                            !.end_lists = @ \o [k \in 1..(size - lattice.size) |-> <<>>],
                            !.capacity = size]
                    ELSE lattice
  IN [expanded EXCEPT
        !.size = size,
        !.eos_node = <<[LatticeNodeEmpty(eos_id, 0, 0, 0) EXCEPT !.start = size, !.end = size]>>]

\* Lattice::clear
Clear(lattice) ==
  [lattice EXCEPT !.end_lists = [k \in 1..Len(@) |-> <<>>], !.size = 0, !.eos_node = <<>>]

\* Lattice::has_previous_node
HasPreviousNode(lattice, index) == At(lattice.end_lists, index) # <<>>

\* the node an Arc names
NodeAt(lattice, ref) == At(At(lattice.end_lists, ref.end), ref.index)

\* (mutant) the loop without the test of is_connected_to_bos
RECURSIVE ConnectLoopAny(_, _, _, _, _)
ConnectLoopAny(l_nodes, start, r_node, k, overflow) ==
  IF k >= Len(l_nodes) THEN [node |-> r_node, overflow |-> overflow]
  ELSE LET l_node == At(l_nodes, k)
           connect_cost == GetConnectCost(matrix_view, l_node.right_id, r_node.left_id)
           cost == AddI32(l_node.total_cost, connect_cost)
       IN IF connect_cost = INHIBITED_CONNECTION
            THEN ConnectLoopAny(l_nodes, start, r_node, k + 1, overflow)
          ELSE IF cost.value < r_node.total_cost
            THEN ConnectLoopAny(l_nodes, start,
                             [r_node EXCEPT !.total_cost = cost.value,
                                            !.best_previous_node = NodeRef(start, k)],
                             k + 1, overflow \/ cost.overflow)
          ELSE ConnectLoopAny(l_nodes, start, r_node, k + 1, overflow \/ cost.overflow)

\* (mutant) the loop with cost <= r_node.total_cost
RECURSIVE ConnectLoopLast(_, _, _, _, _)
ConnectLoopLast(l_nodes, start, r_node, k, overflow) ==
  IF k >= Len(l_nodes) THEN [node |-> r_node, overflow |-> overflow]
  ELSE LET l_node == At(l_nodes, k)
           connect_cost == GetConnectCost(matrix_view, l_node.right_id, r_node.left_id)
           cost == AddI32(l_node.total_cost, connect_cost)
       IN IF ~l_node.is_connected_to_bos
            THEN ConnectLoopLast(l_nodes, start, r_node, k + 1, overflow)
          ELSE IF connect_cost = INHIBITED_CONNECTION
            THEN ConnectLoopLast(l_nodes, start, r_node, k + 1, overflow)
          ELSE IF cost.value <= r_node.total_cost
            THEN ConnectLoopLast(l_nodes, start,
                             [r_node EXCEPT !.total_cost = cost.value,
                                            !.best_previous_node = NodeRef(start, k)],
                             k + 1, overflow \/ cost.overflow)
          ELSE ConnectLoopLast(l_nodes, start, r_node, k + 1, overflow \/ cost.overflow)

\* the loop of connect_node over end_lists[start] (lines 73-89)
RECURSIVE ConnectLoop(_, _, _, _, _)
ConnectLoop(l_nodes, start, r_node, k, overflow) ==
  IF k >= Len(l_nodes) THEN [node |-> r_node, overflow |-> overflow]
  ELSE LET l_node == At(l_nodes, k)
           connect_cost == GetConnectCost(matrix_view, l_node.right_id, r_node.left_id)
           cost == AddI32(l_node.total_cost, connect_cost)
       IN IF ~l_node.is_connected_to_bos
            THEN ConnectLoop(l_nodes, start, r_node, k + 1, overflow)
          ELSE IF connect_cost = INHIBITED_CONNECTION
            THEN ConnectLoop(l_nodes, start, r_node, k + 1, overflow)
          ELSE IF cost.value < r_node.total_cost
            THEN ConnectLoop(l_nodes, start,
                             [r_node EXCEPT !.total_cost = cost.value,
                                            !.best_previous_node = NodeRef(start, k)],
                             k + 1, overflow \/ cost.overflow)
          ELSE ConnectLoop(l_nodes, start, r_node, k + 1, overflow \/ cost.overflow)

\* Lattice::connect_node: the node connected, and whether an addition overflowed
ConnectNode(lattice, r_node) ==
  LET Finish(looped, total_cost) ==
        [node |-> [looped.node EXCEPT
                     !.is_connected_to_bos = looped.node.best_previous_node.some,
                     !.total_cost = total_cost.value],
         overflow |-> looped.overflow \/ total_cost.overflow]
      AddCost(looped) == Finish(looped, AddI32(looped.node.total_cost, looped.node.cost))
  IN AddCost(ConnectLoop(At(lattice.end_lists, r_node.start), r_node.start,
                         [r_node EXCEPT !.total_cost = I32Max], 0, FALSE))

\* Lattice::insert; an overflow panics in a build with overflow checks
Insert(lattice, start, end, node) ==
  LET Push(connected) ==
        [panicked |-> overflow_checks /\ connected.overflow,
         lattice |-> [lattice EXCEPT !.end_lists[end + 1] = Append(@, connected.node)]]
  IN Push(ConnectNode(lattice, [node EXCEPT !.start = start, !.end = end]))

\* Lattice::connect_eos_node
ConnectEosNode(lattice) ==
  LET connected == ConnectNode(lattice, lattice.eos_node[1])
  IN [panicked |-> overflow_checks /\ connected.overflow,
      lattice |-> [lattice EXCEPT !.eos_node = <<connected.node>>]]

\* the loop of get_best_path (lines 99-109): back from `node` until a node
\* with the id of end_lists[0][0], or None
RECURSIVE WalkBack(_, _, _, _)
WalkBack(lattice, node, first_id, result) ==
  IF ~node.some THEN result
  ELSE IF NodeAt(lattice, node).id = first_id THEN result
  ELSE WalkBack(lattice, NodeAt(lattice, node).best_previous_node, first_id,
                Append(result, NodeAt(lattice, node)))

Reverse(s) == [i \in 1..Len(s) |-> s[Len(s) + 1 - i]]

\* Lattice::get_best_path
GetBestPath(lattice) ==
  Reverse(WalkBack(lattice, lattice.eos_node[1].best_previous_node,
                   At(At(lattice.end_lists, 0), 0).id, <<>>))

----------------------------------------------------------------------------
\* Tokenizer::build_lattice (tokenizer.rs).  The fill state is the lattice,
\* the number of nodes the call has created, has_words of the position being
\* filled, and the panic that ended the fill ("ok": none).

\* Most nodes after which a node of the fill draws the random id BOS drew.
MaxClash == 2

\* rand::thread_rng().gen() for the n-th node a call creates (BOS, EOS, then
\* the nodes of the fill): a fresh id, but the id of BOS for the clash-th node
\* of the fill (clash = 0: for none)
NodeId(clash, n) == IF n >= 2 /\ n - 1 = clash THEN 0 ELSE n

\* (mutant) a node for every pair of the lookup, wherever it ends
WordNodesUnfiltered(input, pairs, created, clash) ==
  [j \in 1..Len(pairs) |->
     [LatticeNodeNew(NodeId(clash, created + j - 1),
                     GetLeftId(lexicons, pairs[j].word_id),
                     GetRightId(lexicons, pairs[j].word_id),
                     GetCost(lexicons, pairs[j].word_id),
                     pairs[j].word_id)
        EXCEPT !.end = pairs[j].length]]

\* the nodes LatticeNode::new makes in the loop over lookup's pairs (lines
\* 69-80), each with the end it is inserted at
WordNodes(input, pairs, created, clash) ==
  LET accepted == SelectSeq(pairs, LAMBDA pair :
                    ~(pair.length < Len(input.bytes) /\ ~CanBow(input, pair.length)))
  IN [j \in 1..Len(accepted) |->
        [LatticeNodeNew(NodeId(clash, created + j - 1),
                        GetLeftId(lexicons, accepted[j].word_id),
                        GetRightId(lexicons, accepted[j].word_id),
                        GetCost(lexicons, accepted[j].word_id),
                        accepted[j].word_id)
           EXCEPT !.end = accepted[j].length]]

\* SimpleOovPlugin::provide_oov
ProvideOov(plugin, input, offset, has_other_words, created, clash) ==
  IF ~has_other_words
    THEN LET length == GetWordCandidateLength(input, offset)
             info == [WordInfo(Slice(input.bytes, offset, offset + length), plugin.oov_pos_id,
                               <<>>, <<>>) EXCEPT !.head_word_length = length]
         IN << [LatticeNodeEmpty(NodeId(clash, created), plugin.left_id, plugin.right_id,
                                 plugin.cost)
                  EXCEPT !.is_oov = TRUE, !.is_defined = TRUE,
                         !.extra_word_info = [some |-> TRUE, info |-> info]] >>
    ELSE <<>>

\* MecabOovPlugin::get_oov_node
GetOovNode(id, text, oov, len) ==
  [LatticeNodeEmpty(id, oov.left_id, oov.right_id, oov.cost)
     EXCEPT !.is_oov = TRUE, !.is_defined = TRUE,
            !.extra_word_info = [some |-> TRUE,
                                 info |-> [WordInfo(text, oov.pos_id, <<>>, <<>>)
                                             EXCEPT !.head_word_length = len]]]

\* the loop for i in 1..=category_info.length of provide_oov: the lengths of
\* the prefixes that get nodes.  l_len is below 0 where l_len -= 1 wrapped:
\* no length is above the wrapped value
RECURSIVE PrefixLengths(_, _, _, _, _)
PrefixLengths(input, offset, length, l_len, i) ==
  IF i > length THEN <<>>
  ELSE LET sub_len == GetCodePointsOffsetLength(input, offset, i)
       IN IF l_len >= 0 /\ sub_len > l_len THEN <<>>
          ELSE <<sub_len>> \o PrefixLengths(input, offset, length, l_len, i + 1)

\* the body of provide_oov's loop for one category type: the lengths and
\* templates of the nodes it pushes, and whether l_len -= 1 went below 0
CategoryOovs(plugin, input, offset, has_other_words, category_type, len) ==
  LET category_info == plugin.categories[category_type]
      oovs == IF category_type \in DOMAIN plugin.oovs_list
                THEN plugin.oovs_list[category_type] ELSE <<>>
      grouped == IF category_info.is_group THEN <<len>> ELSE <<>>
      l_len == IF category_info.is_group THEN len - Len(oovs) ELSE len
      lengths == grouped \o PrefixLengths(input, offset, category_info.length, l_len, 1)
  IN IF ~category_info.is_invoke /\ has_other_words
       THEN [made |-> <<>>, underflow |-> FALSE]
       ELSE [made |-> Flatten([k \in 1..Len(lengths) |->
                        [j \in 1..Len(oovs) |-> [len |-> lengths[k], oov |-> oovs[j]]]]),
             underflow |-> l_len < 0]

\* MecabOovPlugin::provide_oov: the nodes, and whether l_len -= 1 overflowed.
\* The category types of the character are taken in the HashSet's iteration
\* order; no character of the model has two categories of the plugin.
MecabProvideOov(plugin, input, offset, has_other_words, created, clash) ==
  LET len == GetCharCategoryContinuousLength(input, offset)
      types == SetToSeq(CharCategoryTypesAt(input, offset) \cap DOMAIN plugin.categories)
      each == [k \in 1..Len(types) |->
                 CategoryOovs(plugin, input, offset, has_other_words, types[k], len)]
      made == Flatten([k \in 1..Len(each) |-> each[k].made])
  IN IF len < 1 THEN [nodes |-> <<>>, underflow |-> FALSE]
     ELSE [nodes |-> [j \in 1..Len(made) |->
                        GetOovNode(NodeId(clash, created + j - 1),
                                   Slice(input.bytes, offset, offset + made[j].len),
                                   made[j].oov, made[j].len)],
           underflow |-> \E k \in 1..Len(each) : each[k].underflow]

\* get_oov: start = offset, end = offset + head_word_length; the subtraction
\* of MecabOovPlugin panics in a build with overflow checks
GetOov(plugin, input, offset, has_other_words, created, clash) ==
  LET Ended(provided) ==
        [panicked |-> overflow_checks /\ provided.underflow,
         nodes |-> [j \in 1..Len(provided.nodes) |->
                      [provided.nodes[j] EXCEPT
                         !.start = offset,
                         !.end = offset + NodeWordInfo(provided.nodes[j]).head_word_length]]]
  IN IF plugin.class = "MecabOovPlugin"
       THEN Ended(MecabProvideOov(plugin, input, offset, has_other_words, created, clash))
       ELSE Ended([nodes |-> ProvideOov(plugin, input, offset, has_other_words, created, clash),
                   underflow |-> FALSE])

\* has_words = true; lattice.insert(start, end, node) for each node in turn.
\* inserts records each insertion that returned: the start, end_lists[start]
\* as connect_node saw it, and the node as it was pushed
RECURSIVE InsertNodes(_, _, _, _)
InsertNodes(st, start, nodes, k) ==
  IF k > Len(nodes) \/ st.panic # "ok" THEN st
  ELSE LET Inserted(inserted) ==
             [st EXCEPT !.has_words = TRUE,
                        !.created = @ + 1,
                        !.lattice = inserted.lattice,
                        !.panic = IF inserted.panicked THEN "overflow" ELSE "ok",
                        !.inserts =
                          IF inserted.panicked THEN @
                          ELSE Append(@, [start |-> start,
                                          l_nodes |-> At(st.lattice.end_lists, start),
                                          node |-> Last(At(inserted.lattice.end_lists,
                                                           nodes[k].end))])]
       IN InsertNodes(Inserted(Insert(st.lattice, start, nodes[k].end, nodes[k])),
                      start, nodes, k + 1)

\* (mutant) every provider is told that the position has no words yet
ProcessOovFresh(st, plugin, input, i, clash) ==
  LET Got(called, got) ==
        IF got.panicked THEN [called EXCEPT !.panic = "overflow_oov"]
        ELSE InsertNodes(called, i, got.nodes, 1)
      Called(called, has_words) ==
        Got([called EXCEPT !.oov_calls =
               Append(@, [i |-> i, class |-> plugin.class, has_words |-> has_words,
                          inserted_before |-> Len(st.inserts)])],
            GetOov(plugin, input, i, has_words, st.created, clash))
  IN IF st.panic # "ok" THEN st
     ELSE Called(st, FALSE)

\* process_oov.  oov_calls records each call of get_oov: the position, the
\* provider, the has_words it was given, and the number of insertions before it
ProcessOov(st, plugin, input, i, clash) ==
  LET Got(called, got) ==
        IF got.panicked THEN [called EXCEPT !.panic = "overflow_oov"]
        ELSE InsertNodes(called, i, got.nodes, 1)
      Called(called, has_words) ==
        Got([called EXCEPT !.oov_calls =
               Append(@, [i |-> i, class |-> plugin.class, has_words |-> has_words,
                          inserted_before |-> Len(st.inserts)])],
            GetOov(plugin, input, i, has_words, st.created, clash))
  IN IF st.panic # "ok" THEN st
     ELSE Called(st, st.has_words)

\* for oov_plugin in self.oov_provider_plugins.iter() { process_oov(..) }
RECURSIVE ProcessOovAll(_, _, _, _, _)
ProcessOovAll(st, input, i, clash, k) ==
  IF k > Len(oov_provider_plugins) THEN st
  ELSE ProcessOovAll(ProcessOov(st, oov_provider_plugins[k], input, i, clash),
                     input, i, clash, k + 1)

\* one turn of the loop of build_lattice, from the lookup on (lines 69-99)
FillAt(st, input, i, clash) ==
  LET WithWords(looked) ==
        InsertNodes([st EXCEPT !.has_words = FALSE], i,
                    WordNodes(input, looked.pairs, st.created, clash), 1)
      WithOov(words) ==
        IF "NOOOVBOW" \notin CharCategoryTypesAt(input, i)
          THEN ProcessOovAll(words, input, i, clash, 1)
          ELSE words
      LastPlugin(oov) ==
        IF ~oov.has_words /\ oov_provider_plugins # <<>>
          THEN ProcessOov(oov, Last(oov_provider_plugins), input, i, clash)
          ELSE oov
      NoMorpheme(last) ==
        IF last.panic = "ok" /\ ~last.has_words THEN [last EXCEPT !.panic = "no_morpheme"]
        ELSE last
      Looked(looked) ==
        IF looked.panicked THEN [st EXCEPT !.panic = "word_id"]
        ELSE NoMorpheme(LastPlugin(WithOov(WithWords(looked))))
  IN Looked(LexiconSetLookup(lexicons, input.bytes, i))

\* for i in 0..len (lines 63-100); lexicon_set.lock().unwrap() panics on a
\* poisoned mutex
RECURSIVE FillLoop(_, _, _, _, _)
FillLoop(st, input, i, clash, l_poisoned) ==
  IF i >= Len(input.bytes) \/ st.panic # "ok" THEN st
  ELSE IF ~CanBow(input, i) \/ ~HasPreviousNode(st.lattice, i)
    THEN FillLoop(st, input, i + 1, clash, l_poisoned)
  ELSE IF l_poisoned THEN [st EXCEPT !.panic = "poisoned"]
  ELSE FillLoop(FillAt(st, input, i, clash), input, i + 1, clash, l_poisoned)

NoLattice == [size |-> 0, capacity |-> 0, eos_node |-> <<>>, end_lists |-> <<>>]

\* Tokenizer::build_lattice; Lattice::new panics on a poisoned grammar mutex
BuildLattice(input, clash, g_poisoned, l_poisoned) ==
  LET Connected(filled, connected) ==
        [filled EXCEPT !.lattice = connected.lattice,
                       !.panic = IF connected.panicked THEN "overflow_eos" ELSE "ok"]
      Filled(filled) ==
        IF filled.panic # "ok" THEN filled
        ELSE Connected(filled, ConnectEosNode(filled.lattice))
  IN IF g_poisoned
       THEN [lattice |-> NoLattice, created |-> 0, has_words |-> FALSE, panic |-> "poisoned",
             inserts |-> <<>>, oov_calls |-> <<>>]
       ELSE Filled(FillLoop([lattice |-> Resize(LatticeNew(NodeId(clash, 0)),
                                                Len(input.bytes), NodeId(clash, 1)),
                             created |-> 2, has_words |-> FALSE, panic |-> "ok",
                             inserts |-> <<>>, oov_calls |-> <<>>],
                            input, 0, clash, l_poisoned))

\* the mutexes whose guard the panicking thread held
Poisons(panic) ==
  IF panic \in {"no_morpheme", "word_id", "overflow_oov"} THEN {"lexicon_set"}
  ELSE IF panic = "overflow" THEN {"grammar", "lexicon_set"}
  ELSE IF panic = "overflow_eos" THEN {"grammar"}
  ELSE {}

----------------------------------------------------------------------------
\* Tokenizer::split_path

\* the nodes made for the word ids of a split list (lines 122-135)
RECURSIVE SplitNodes(_, _, _, _, _)
SplitNodes(word_ids, k, offset, created, out) ==
  IF k > Len(word_ids) THEN out
  ELSE LET node == LatticeNodeNew(created + Len(out), 0, 0, 0, word_ids[k])
           end == offset + NodeWordInfo(node).head_word_length
       IN SplitNodes(word_ids, k + 1, end, created,
                     Append(out, [node EXCEPT !.start = offset, !.end = end]))

RECURSIVE SplitLoop(_, _, _, _, _)
SplitLoop(path, mode, k, created, new_path) ==
  IF k > Len(path) THEN new_path
  ELSE LET word_ids == IF mode = "A" THEN NodeWordInfo(path[k]).a_unit_split
                                     ELSE NodeWordInfo(path[k]).b_unit_split
       IN IF Len(word_ids) <= 1
            THEN SplitLoop(path, mode, k + 1, created, Append(new_path, path[k]))
            ELSE SplitLoop(path, mode, k + 1, created,
                           new_path \o SplitNodes(word_ids, 1, path[k].start,
                                                  created + Len(new_path), <<>>))

SplitPath(path, mode, created) ==
  IF mode = "C" THEN path ELSE SplitLoop(path, mode, 1, created, <<>>)

----------------------------------------------------------------------------
\* Tokenizer::tokenize

\* what a call leaves behind: None, Some(MorphemeList) or a panic, with the
\* input text, the lattice as get_best_path saw it, the lattice after clear,
\* the best path, the path after split_path, and the insertions and provider
\* calls of the fill
Outcome(kind, cause) ==
  [kind |-> kind, cause |-> cause, poisons |-> Poisons(cause), sets_logger |-> FALSE,
   input |-> NoInput, lattice |-> NoLattice, cleared |-> NoLattice, created |-> 0,
   best_path |-> <<>>, path |-> <<>>, inserts |-> <<>>, oov_calls |-> <<>>]

\* tokenize(text, mode, logger) with the two mutexes poisoned or not
Tokenize(text, mode, logger, clash, g_poisoned, l_poisoned) ==
  LET Some(input, filled, best_path) ==
        [Outcome("some", "ok") EXCEPT
           !.sets_logger = logger,
           !.input = input,
           !.lattice = filled.lattice,
           !.cleared = Clear(filled.lattice),
           !.created = filled.created,
           !.best_path = best_path,
           !.path = SplitPath(best_path, mode, filled.created),
           !.inserts = filled.inserts,
           !.oov_calls = filled.oov_calls]
      Filled(input, filled) ==
        IF filled.panic # "ok"
          THEN [Outcome("panicked", filled.panic) EXCEPT
                  !.sets_logger = logger, !.input = input,
                  !.inserts = filled.inserts, !.oov_calls = filled.oov_calls]
          ELSE Some(input, filled, GetBestPath(filled.lattice))
      Built(input) == Filled(input, BuildLattice(input, clash, g_poisoned, l_poisoned))
      Rewritten(builder) ==
        IF ~builder.ok
          THEN [Outcome("none", "range_error") EXCEPT !.sets_logger = logger]
          ELSE Built(BuildInputText(text, builder.modified_text, builder.text_offsets,
                                    range_list))
  IN IF text = <<>> THEN Outcome("none", "empty")
     ELSE IF logger /\ logger_set THEN Outcome("panicked", "logger")
     ELSE Rewritten(RewriteAll(input_text_plugins,
                               [ok |-> TRUE, err |-> "ok", modified_text |-> text,
                                text_offsets |-> NewTextOffsets(text)], 1))

----------------------------------------------------------------------------
\* The tokenizer's state machine: a Dictionary set up from a configuration,
\* then tokenize calls on its tokenizers, one after the other.  All
\* tokenizers of a Dictionary share its grammar, lexicon set and plugins and
\* hold nothing else, so a call on one is a call on any.

\* connection matrices over the ids 0..3; matrix_view[right][left]
ConnectMatrix(kind) ==
  [right \in 1..4 |-> [left \in 1..4 |->
     IF kind = "flat" THEN 0
     ELSE IF kind = "user"
       THEN (IF right = 1 /\ left = 1 THEN 40 ELSE IF right = 2 /\ left = 1 THEN -3 ELSE 0)
     ELSE (IF right = 1 /\ left = 2 THEN INHIBITED_CONNECTION ELSE 0)]]

MatrixViews == {ConnectMatrix(kind) : kind \in {"flat", "user", "inhibit"}}

\* the lexicon sets: the system dictionary alone or with one user dictionary
LexiconSets == {<<Lexicon(0, 0)>>, <<Lexicon(0, 0), Lexicon(1, 1)>>,
                <<Lexicon(0, 0), Lexicon(2, 2)>>}

\* the character definition of the grammar
CharacterDefinition ==
  << CharacterCategoryRange(CP.a, CP.a + 1, {"ALPHA"}),
     CharacterCategoryRange(CP.b, CP.b + 1, {"NUMERIC"}),
     CharacterCategoryRange(CP.kanji, CP.kanji + 1, {"KANJI", "NOOOVBOW"}) >>

\* a line of unk.def
Oov(left_id, right_id, cost, pos_id) ==
  [left_id |-> left_id, right_id |-> right_id, cost |-> cost, pos_id |-> pos_id]

\* a line of char.def
CategoryInfo(is_invoke, is_group, length) ==
  [is_invoke |-> is_invoke, is_group |-> is_group, length |-> length]

\* MecabOovPlugin::setup on a char.def and an unk.def
MecabOovPlugin ==
  [class |-> "MecabOovPlugin",
   categories |-> [c \in {"DEFAULT", "ALPHA", "NUMERIC"} |->
                     IF c = "DEFAULT" THEN CategoryInfo(FALSE, TRUE, 0)
                     ELSE IF c = "ALPHA" THEN CategoryInfo(TRUE, TRUE, 1)
                     ELSE CategoryInfo(TRUE, FALSE, 2)],
   oovs_list |-> [c \in {"DEFAULT", "ALPHA", "NUMERIC"} |->
                    IF c = "DEFAULT" THEN <<Oov(0, 0, 25, -1)>>
                    ELSE IF c = "ALPHA" THEN <<Oov(1, 1, 20, 0)>>
                    ELSE <<Oov(0, 0, 20, -1), Oov(0, 0, 20, 0)>>]]

\* SimpleOovPlugin::setup
SimpleOovPlugin ==
  [class |-> "SimpleOovPlugin", left_id |-> 0, right_id |-> 0, cost |-> 30, oov_pos_id |-> -1]

\* oovProviderPlugin of the configuration: none, the simple provider, or the
\* MeCab provider followed by the simple one
OovProviderPlugins == {<<>>, <<SimpleOovPlugin>>, <<MecabOovPlugin, SimpleOovPlugin>>}

\* inputTextPlugin of the configuration: none, or the prolonged sound mark plugin
InputTextPlugins ==
  {<<>>, <<[class |-> "ProlongedSoundMarkInputTextPlugin", psm_set |-> {CP.mark},
            replace_symbol |-> <<CP.mark>>]>>}

\* the texts given to tokenize
TokenizeTexts ==
  {<<>>, <<CP.a>>, <<CP.b>>, <<CP.kanji>>, <<CP.a, CP.b>>, <<CP.b, CP.a>>, <<CP.a, CP.a>>,
   <<CP.kanji, CP.a>>, <<CP.mark, CP.mark>>, <<CP.a, CP.b, CP.a, CP.a>>,
   <<CP.b, CP.a, CP.b>>}

SplitModes == {"A", "B", "C"}

\* Dictionary::setup has returned Ok
TokInit ==
  /\ matrix_view \in MatrixViews
  /\ oov_provider_plugins \in OovProviderPlugins
  /\ input_text_plugins \in InputTextPlugins
  /\ overflow_checks \in BOOLEAN
  /\ grammar_poisoned = FALSE
  /\ lexicon_set_poisoned = FALSE
  /\ logger_set = FALSE
  /\ failures = {}
  /\ tok_pc = "idle"
  /\ tok_result = NoQuery
  /\ cat_input = CharacterDefinition
  /\ range_list = Compile(CharacterDefinition, "earliest").range_list
  /\ cat_pc = "compiled"
  /\ cat_query = NoQuery
  /\ lexicons \in LexiconSets
  /\ pos_offsets = [i \in 1..Len(lexicons) |->
                      IF i = 1 THEN 0 ELSE DictionaryFile(0).pos_count]
  /\ pos_list_len = DictionaryFile(0).pos_count
                    + (IF Len(lexicons) > 1 THEN DictionaryFile(lexicons[2].file).pos_count
                                            ELSE 0)
  /\ user_dict_paths = <<>>
  /\ id_collisions = 0
  /\ lex_pc = "ready"
  /\ lex_lookup = NoQuery
  /\ lex_get = NoQuery

\* tokenize(text, Some(mode), logger) on a tokenizer of the Dictionary
DoTokenize(text, mode, logger, clash) ==
  /\ tok_pc = "idle"
  /\ LET Done(out, valid) ==
           /\ tok_result' = [called |-> TRUE, text |-> text, mode |-> mode, logger |-> logger,
                             clash |-> clash, failures_before |-> failures,
                             valid |-> valid] @@ out
           /\ tok_pc' = IF out.kind = "panicked" THEN "panicked" ELSE "returned"
           /\ grammar_poisoned' = (grammar_poisoned \/ "grammar" \in out.poisons)
           /\ lexicon_set_poisoned' = (lexicon_set_poisoned \/ "lexicon_set" \in out.poisons)
           /\ logger_set' = (logger_set \/ out.sets_logger)
           /\ failures' = IF out.kind = "some" \/ out.cause = "empty"
                            THEN failures ELSE failures \cup {out.cause}
     IN Done(Tokenize(text, mode, logger, clash, grammar_poisoned, lexicon_set_poisoned),
             Tokenize(text, mode, logger, clash, FALSE, FALSE).kind = "some")
  /\ UNCHANGED <<matrix_view, oov_provider_plugins, input_text_plugins, overflow_checks>>
  /\ UNCHANGED notTok

\* the caller drops what the call returned, or the panic has unwound
DropResult ==
  /\ tok_pc # "idle"
  /\ tok_pc' = "idle"
  /\ tok_result' = NoQuery
  /\ UNCHANGED <<matrix_view, oov_provider_plugins, input_text_plugins, overflow_checks,
                 grammar_poisoned, lexicon_set_poisoned, logger_set, failures>>
  /\ UNCHANGED notTok

TokNext ==
  \/ \E text \in TokenizeTexts, mode \in SplitModes, logger \in BOOLEAN, clash \in 0..MaxClash :
       DoTokenize(text, mode, logger, clash)
  \/ DropResult

InitTok == TokInit /\ BuilderIdle /\ LockIdle /\ TrieIdle /\ DictIdle /\ CallIdle

SpecTok == InitTok /\ [][TokNext]_vars

----------------------------------------------------------------------------
\* Properties of tokenize (checked under SpecTok).

\* the nodes inserted into the lattice
InsertedNodes(lattice) ==
  UNION {{At(lattice.end_lists, e)[k] : k \in 1..Len(At(lattice.end_lists, e))} :
           e \in 1..lattice.size}

\* those that start at byte p
NodesStartingAt(lattice, p) == {n \in InsertedNodes(lattice) : n.start = p}

\* every sequence of inserted nodes that leads from byte p to the end of the text
RECURSIVE PathsFrom(_, _)
PathsFrom(lattice, p) ==
  IF p = lattice.size THEN {<<>>}
  ELSE UNION {{<<n>> \o rest : rest \in PathsFrom(lattice, n.end)} :
                n \in NodesStartingAt(lattice, p)}

\* the connection costs along BOS, path, EOS
ConnectCosts(lattice, path) ==
  LET bos == At(At(lattice.end_lists, 0), 0)
      nodes == <<bos>> \o path \o lattice.eos_node
  IN [k \in 1..(Len(nodes) - 1) |->
        GetConnectCost(matrix_view, nodes[k].right_id, nodes[k + 1].left_id)]

RECURSIVE Sum(_)
Sum(s) == IF s = <<>> THEN 0 ELSE Head(s) + Sum(Tail(s))

\* no connection of the path is inhibited
Allowed(lattice, path) ==
  \A k \in 1..(Len(path) + 1) : ConnectCosts(lattice, path)[k] # INHIBITED_CONNECTION

\* node costs plus connection costs, BOS and EOS included
PathCost(lattice, path) ==
  Sum([k \in 1..Len(path) |-> path[k].cost]) + Sum(ConnectCosts(lattice, path))
  + At(At(lattice.end_lists, 0), 0).cost + lattice.eos_node[1].cost

BosToEosPaths(lattice) == {path \in PathsFrom(lattice, 0) : Allowed(lattice, path)}

\* the best path is a BOS-to-EOS path of the lattice of least cost
BestPathMinimal ==
  LET paths == BosToEosPaths(tok_result.lattice)
  IN paths # {} =>
       /\ tok_result.best_path \in paths
       /\ \A path \in paths :
            PathCost(tok_result.lattice, tok_result.best_path)
              <= PathCost(tok_result.lattice, path)

\* C1: for any input text, grammar and lexicon set, the path get_best_path
\* returns after build_lattice has the least total cost (node costs plus
\* connection costs, BOS and EOS included, no inhibited connection) among the
\* BOS-to-EOS paths that can be formed from the nodes inserted into the lattice.
C1_BestPathMinimal ==
  (tok_result.called /\ tok_result.kind = "some") => BestPathMinimal

\* What get_best_path does guarantee: the best path is minimal whenever no
\* node of the fill drew the random id of BOS.
BestPathMinimalUnlessIdClash ==
  (tok_result.called /\ tok_result.kind = "some" /\ tok_result.clash = 0) => BestPathMinimal

\* a lattice with three BOS-to-EOS paths whose best path is a single word
BestPathMinimalReached ==
  /\ tok_result.called
  /\ tok_result.kind = "some"
  /\ tok_result.clash = 0
  /\ Cardinality(BosToEosPaths(tok_result.lattice)) >= 3
  /\ Len(tok_result.best_path) = 1

\* the earlier calls that failed all failed with a per-call error: the
\* 'no morpheme' panic of the fill or a range error of an input text plugin
AfterPerCallError ==
  /\ tok_result.called
  /\ tok_result.failures_before # {}
  /\ tok_result.failures_before \subseteq {"no_morpheme", "range_error"}

\* C2: after a tokenize call failed with a per-call error ('no morpheme at i'
\* or a range error of an input text plugin), every later tokenize call with
\* valid input (input the Dictionary tokenizes when its mutexes are sound), on
\* any tokenizer of the Dictionary, completes and returns its morphemes.
C2_ReusableAfterError ==
  (AfterPerCallError /\ tok_result.valid) => tok_result.kind = "some"

\* the byte positions at which a morpheme of the path starts or ends
Boundaries(path) == UNION {{path[k].start, path[k].end} : k \in 1..Len(path)}

\* two paths cover the same bytes, from the first start to the last end
SameCover(p, q) ==
  IF p = <<>> \/ q = <<>> THEN p = <<>> /\ q = <<>>
  ELSE p[1].start = q[1].start /\ Last(p).end = Last(q).end

\* C4: for the same input and dictionary, mode C returns the best path
\* unchanged, the morpheme boundaries of mode A are a superset of those of
\* mode B, which are a superset of those of mode C, and in every mode the
\* morphemes cover the same byte range.
C4_ModesRefine ==
  (tok_result.called /\ tok_result.kind = "some") =>
    LET a == SplitPath(tok_result.best_path, "A", tok_result.created)
        b == SplitPath(tok_result.best_path, "B", tok_result.created)
        c == SplitPath(tok_result.best_path, "C", tok_result.created)
    IN /\ tok_result.path = SplitPath(tok_result.best_path, tok_result.mode, tok_result.created)
       /\ c = tok_result.best_path
       /\ Boundaries(c) \subseteq Boundaries(b)
       /\ Boundaries(b) \subseteq Boundaries(a)
       /\ SameCover(a, c)
       /\ SameCover(b, c)

----------------------------------------------------------------------------
\* Threads that call tokenize on tokenizers of one Dictionary.  The
\* tokenizers share one grammar mutex and one lexicon-set mutex
\* (Dictionary::create); a thread is followed through the places of tokenize
\* where it takes or drops a guard of one of the two.  The lattice, the input
\* text and the nodes belong to the call.

\* Threads that call tokenize.
NumThreads == 2
\* Most bytes of a tokenized text; the lexicon holds one word at every byte.
MaxWords == 2

NoThread == 0
Mutexes == {"grammar", "lexicon_set"}

\* a thread: where it is, the length and the mode of its call, and the loop index
Thread(pc, len, mode, i) == [pc |-> pc, len |-> len, mode |-> mode, i |-> i]

LockInit ==
  /\ log_enabled \in BOOLEAN
  /\ holder = [m \in Mutexes |-> NoThread]
  /\ threads = [t \in 1..NumThreads |-> Thread("idle", 0, "C", 0)]

\* mutex.lock().unwrap(): blocks while another guard of the mutex is alive
Lock(t, m, next) ==
  /\ holder[m] = NoThread
  /\ holder' = [holder EXCEPT ![m] = t]
  /\ threads' = [threads EXCEPT ![t] = next]
  /\ UNCHANGED log_enabled
  /\ UNCHANGED notLock

\* the guard goes out of scope
Unlock(t, m, next) ==
  /\ holder[m] = t
  /\ holder' = [holder EXCEPT ![m] = NoThread]
  /\ threads' = [threads EXCEPT ![t] = next]
  /\ UNCHANGED log_enabled
  /\ UNCHANGED notLock

\* a step that touches neither mutex
Goto(t, next) ==
  /\ threads' = [threads EXCEPT ![t] = next]
  /\ UNCHANGED <<log_enabled, holder>>
  /\ UNCHANGED notLock

\* tokenize, line 192: log_path(&path) after split_path, then the return
AfterSplit(th) ==
  IF log_enabled THEN [th EXCEPT !.pc = "path_after", !.i = 0]
                 ELSE [th EXCEPT !.pc = "done", !.i = 0]

\* tokenize, line 190: split_path returns at once in mode C
AfterPathBefore(th) ==
  IF th.mode = "C" THEN AfterSplit(th) ELSE [th EXCEPT !.pc = "split", !.i = 0]

\* tokenize, lines 179-183: lattice.log() and log_path return at once unless
\* info-level logging is enabled
AfterBuildLattice(th) ==
  IF log_enabled THEN [th EXCEPT !.pc = "log", !.i = 0] ELSE AfterPathBefore(th)

\* Lattice::log: the node logged at step i is EOS, a word or BOS
LoggedNodeIsDefined(th) == 1 <= th.i /\ th.i <= th.len

\* tokenize(text, Some(mode), None) with a text of len bytes
CallTokenize(t, len, mode) ==
  /\ threads[t].pc = "idle"
  /\ Goto(t, Thread("new_eos", len, mode, 0))

\* Lattice::new, lines 20-21: grammar.lock().unwrap().get_eos_parameter(),
\* then the same for get_bos_parameter; each guard is a temporary
LatticeNewLock(t) ==
  /\ threads[t].pc \in {"new_eos", "new_bos"}
  /\ Lock(t, "grammar", [threads[t] EXCEPT !.pc = IF threads[t].pc = "new_eos"
                                                     THEN "new_eos_held" ELSE "new_bos_held"])

LatticeNewUnlock(t) ==
  /\ threads[t].pc \in {"new_eos_held", "new_bos_held"}
  /\ Unlock(t, "grammar", [threads[t] EXCEPT !.pc = IF threads[t].pc = "new_eos_held"
                                                       THEN "new_bos" ELSE "fill"])

\* build_lattice, line 68: let lexicon_set = self.lexicon_set.lock().unwrap()
FillLock(t) ==
  /\ threads[t].pc = "fill"
  /\ Lock(t, "lexicon_set", [threads[t] EXCEPT !.pc = "insert"])

\* Lattice::connect_node, line 71, from insert (build_lattice line 81, the
\* lexicon-set guard alive) or from connect_eos_node (line 101)
ConnectNodeLock(t) ==
  /\ threads[t].pc \in {"insert", "eos"}
  /\ Lock(t, "grammar", [threads[t] EXCEPT !.pc = IF threads[t].pc = "insert"
                                                     THEN "connect" ELSE "eos_connect"])

\* Lattice::connect_node returns, line 92
ConnectNodeUnlock(t) ==
  /\ threads[t].pc \in {"connect", "eos_connect"}
  /\ Unlock(t, "grammar", IF threads[t].pc = "connect"
                            THEN [threads[t] EXCEPT !.pc = "inserted"]
                            ELSE AfterBuildLattice(threads[t]))

\* build_lattice, line 100: the loop body ends and drops the lexicon-set guard
FillUnlock(t) ==
  /\ threads[t].pc = "inserted"
  /\ Unlock(t, "lexicon_set",
            [threads[t] EXCEPT !.i = @ + 1,
                               !.pc = IF threads[t].i + 1 = threads[t].len
                                        THEN "eos" ELSE "fill"])

\* Lattice::log_node, line 117: let grammar = self.grammar.lock().unwrap()
LogNodeLock(t) ==
  /\ threads[t].pc = "log"
  /\ Lock(t, "grammar", [threads[t] EXCEPT !.pc = "log_node"])

\* Lattice::log_node, line 121: node.get_word_info() of a defined node locks
\* the lexicon set (LatticeNode::get_word_info, line 128), the grammar guard alive
LogWordInfoLock(t) ==
  /\ threads[t].pc = "log_node"
  /\ LoggedNodeIsDefined(threads[t])
  /\ Lock(t, "lexicon_set", [threads[t] EXCEPT !.pc = "log_word_info"])

LogWordInfoUnlock(t) ==
  /\ threads[t].pc = "log_word_info"
  /\ Unlock(t, "lexicon_set", [threads[t] EXCEPT !.pc = "log_costs"])

\* Lattice::log_node returns, line 151; Lattice::log goes to the next node
LogNodeUnlock(t) ==
  /\ \/ threads[t].pc = "log_costs"
     \/ threads[t].pc = "log_node" /\ ~LoggedNodeIsDefined(threads[t])
  /\ Unlock(t, "grammar",
            IF threads[t].i = threads[t].len + 1
              THEN [threads[t] EXCEPT !.pc = "path_before", !.i = 0]
              ELSE [threads[t] EXCEPT !.pc = "log", !.i = @ + 1])

\* split_path, lines 115 and 117: node.lock().unwrap().get_word_info() locks
\* the lexicon set; log_path, line 221, does the same through to_str
WordInfoLock(t) ==
  /\ threads[t].pc \in {"path_before", "split", "path_after"}
  /\ Lock(t, "lexicon_set", [threads[t] EXCEPT !.pc = IF threads[t].pc = "path_before"
                                                         THEN "path_before_info"
                                                       ELSE IF threads[t].pc = "split"
                                                         THEN "split_info"
                                                       ELSE "path_after_info"])

WordInfoUnlock(t) ==
  /\ threads[t].pc \in {"path_before_info", "split_info", "path_after_info"}
  /\ LET th == threads[t]
         more == th.i + 1 < th.len
     IN Unlock(t, "lexicon_set",
               IF more
                 THEN [th EXCEPT !.i = @ + 1,
                                 !.pc = IF th.pc = "path_before_info" THEN "path_before"
                                        ELSE IF th.pc = "split_info" THEN "split"
                                        ELSE "path_after"]
               ELSE IF th.pc = "path_before_info" THEN AfterPathBefore(th)
               ELSE IF th.pc = "split_info" THEN AfterSplit(th)
               ELSE [th EXCEPT !.pc = "done", !.i = 0])

\* tokenize returns Some(MorphemeList), line 195
Return(t) ==
  /\ threads[t].pc = "done"
  /\ Goto(t, Thread("idle", 0, "C", 0))

LockNext ==
  \E t \in 1..NumThreads :
    \/ \E len \in 1..MaxWords, mode \in {"A", "B", "C"} : CallTokenize(t, len, mode)
    \/ LatticeNewLock(t)
    \/ LatticeNewUnlock(t)
    \/ FillLock(t)
    \/ ConnectNodeLock(t)
    \/ ConnectNodeUnlock(t)
    \/ FillUnlock(t)
    \/ LogNodeLock(t)
    \/ LogWordInfoLock(t)
    \/ LogWordInfoUnlock(t)
    \/ LogNodeUnlock(t)
    \/ WordInfoLock(t)
    \/ WordInfoUnlock(t)
    \/ Return(t)

InitLock == LockInit /\ BuilderIdle /\ CatIdle /\ LexIdle /\ TokIdle /\ TrieIdle /\ DictIdle /\ CallIdle

SpecLock == InitLock /\ [][LockNext]_vars

----------------------------------------------------------------------------
\* Properties of concurrent calls (checked under SpecLock).

\* the mutex the thread's next step locks, if its next step is a lock
Wants(t) ==
  LET th == threads[t]
  IN IF th.pc \in {"new_eos", "new_bos", "insert", "eos", "log"} THEN "grammar"
     ELSE IF th.pc \in {"fill", "path_before", "split", "path_after"} THEN "lexicon_set"
     ELSE IF th.pc = "log_node" /\ LoggedNodeIsDefined(th) THEN "lexicon_set"
     ELSE "none"

\* the thread waits for a guard another thread holds
Blocked(t) == Wants(t) # "none" /\ holder[Wants(t)] # NoThread

\* some thread is inside tokenize and every such thread is blocked
Deadlocked ==
  /\ \E t \in DOMAIN threads : threads[t].pc # "idle"
  /\ \A t \in DOMAIN threads : threads[t].pc # "idle" => Blocked(t)

\* C3: when threads call tokenize concurrently on tokenizers of one
\* Dictionary, no interleaving of the lock acquisitions of build_lattice,
\* connect_node, log_node and get_word_info reaches a deadlock, with
\* info-level logging enabled or disabled.
C3_NoDeadlock == ~Deadlocked

\* with info-level logging disabled no interleaving reaches a deadlock
NoDeadlockWithoutLogging == log_enabled \/ ~Deadlocked

\* two calls are inside tokenize with logging disabled, one of them holds the
\* lexicon-set guard of the fill and the other waits for it
NoDeadlockWithoutLoggingReached ==
  /\ ~log_enabled
  /\ \E t \in DOMAIN threads, u \in DOMAIN threads :
       /\ threads[t].pc = "insert"
       /\ threads[u].pc = "fill"

----------------------------------------------------------------------------
\* Properties of the input text a tokenize call built (checked under SpecTok).

\* the byte position at which the k-th character of the text starts (k from 1)
FirstByteOf(text, k) == Len(Utf8Bytes(SubSeq(text, 1, k - 1)))

\* the can-begin-word flag of the k-th character, from the category sets of
\* the character definition
CanBeginWord(text, k) ==
  LET cat == GetCategoryTypes(range_list, text[k])
  IN \/ k = 1
     \/ cat \cap {"ALPHA", "GREEK", "CYRILLIC"} = {}
     \/ cat \cap GetCategoryTypes(range_list, text[k - 1]) = {}

\* C11: in a built input text, can_bow(b) is true iff b is the first byte of
\* a character and that character's can-begin-word flag is true; the flag is
\* true for every character, except that for a character whose category set
\* contains ALPHA, GREEK or CYRILLIC it is true iff the category set of the
\* preceding character is disjoint from its own (the first character's flag
\* is always true).
C11_CanBow ==
  (tok_result.called /\ tok_result.input.built) =>
    LET input == tok_result.input
    IN \A b \in 0..(Len(input.bytes) - 1) :
         CanBow(input, b) <=>
           \E k \in 1..Len(input.modified_text) :
             /\ FirstByteOf(input.modified_text, k) = b
             /\ CanBeginWord(input.modified_text, k)

\* an input text was built in which a letter follows a letter of its own
\* category and may not begin a word
C11_Witness ==
  /\ tok_result.called
  /\ tok_result.input.built
  /\ Len(tok_result.input.modified_text) = 2
  /\ "ALPHA" \in GetCategoryTypes(range_list, tok_result.input.modified_text[2])
  /\ ~CanBow(tok_result.input, 1)

----------------------------------------------------------------------------
\* darts: the double-array trie of a lexicon.  DawgBuilder first.

\* Most bytes of a key and of a searched text.
MaxKeyLen == 2
\* Most keys of a build.
MaxKeys == 2
\* Largest value stored with a key.
MaxTrieValue == 1

\* s with s[i] replaced, 0-based
SetAt(s, i, v) == [s EXCEPT ![i + 1] = v]

\* a ^ b on non-negative integers
RECURSIVE Xor(_, _)
Xor(a, b) ==
  IF a = 0 THEN b
  ELSE IF b = 0 THEN a
  ELSE (((a % 2) + (b % 2)) % 2) + 2 * Xor(a \div 2, b \div 2)

\* DawgNode::new()
DawgNodeNew ==
  [child |-> 0, sibling |-> 0, label |-> 0, is_state |-> FALSE, has_sibling |-> FALSE]

\* DawgNode::unit
DawgNodeUnit(node) ==
  IF node.label = 0
  THEN node.child * 2 + (IF node.has_sibling THEN 1 ELSE 0)
  ELSE node.child * 4 + (IF node.is_state THEN 2 ELSE 0)
                      + (IF node.has_sibling THEN 1 ELSE 0)

\* DawgBuilder::new() followed by init().  The hash table is the set of
\* the unit ids stored in it: find_node probes until it meets an equal unit or
\* a free slot, so it finds a stored unit wherever its hash put it, and the
\* table (1024 slots, expanded at 768 states) never fills at these bounds.
DawgInit ==
  [nodes |-> <<[DawgNodeNew EXCEPT !.label = 255]>>,
   units |-> <<0>>,
   labels |-> <<0>>,
   _is_intersections |-> <<FALSE>>,
   is_intersections |-> <<>>,
   table |-> {},
   node_stack |-> <<0>>,
   recycle_bin |-> <<>>,
   num_states |-> 1,
   panic |-> ""]

\* DawgBuilder::child / sibling / value / label / is_leaf of a unit
DawgChild(d, id) == At(d.units, id) \div 4
DawgSibling(d, id) == IF At(d.units, id) % 2 = 1 THEN id + 1 ELSE 0
DawgValue(d, id) == At(d.units, id) \div 2
DawgLabel(d, id) == At(d.labels, id)
IsLeaf(d, id) == DawgLabel(d, id) # 0

\* the bits of is_intersections set below id
IntersectionId(d, id) ==
  Cardinality({k \in 1..id : d.is_intersections[k]})

NumIntersections(d) ==
  Cardinality({k \in 1..Len(d.is_intersections) : d.is_intersections[k]})

\* the nodes from id along .sibling
RECURSIVE SiblingChain(_, _)
SiblingChain(nodes, id) ==
  IF id = 0 THEN <<>> ELSE <<id>> \o SiblingChain(nodes, At(nodes, id).sibling)

\* DawgBuilder::append_node: the builder after it, and the id it returns
AppendNode(d) ==
  IF d.recycle_bin = <<>>
  THEN [d |-> [d EXCEPT !.nodes = Append(@, DawgNodeNew)], id |-> Len(d.nodes)]
  ELSE [d |-> [d EXCEPT !.nodes = SetAt(@, Last(d.recycle_bin), DawgNodeNew),
                        !.recycle_bin = SubSeq(@, 1, Len(@) - 1)],
        id |-> Last(d.recycle_bin)]

\* DawgBuilder::are_equal: the siblings from node_id are the units that end
\* at unit_id + (their number - 1), last sibling first
AreEqual(d, node_id, unit_id) ==
  LET chain == SiblingChain(d.nodes, node_id)
      n == Len(chain)
  IN /\ unit_id + n <= Len(d.units)
     /\ \A k \in 0..(n - 2) : At(d.units, unit_id + k) % 2 = 1
     /\ At(d.units, unit_id + n - 1) % 2 = 0
     /\ \A k \in 1..n :
          /\ DawgNodeUnit(At(d.nodes, chain[k])) = At(d.units, unit_id + n - k)
          /\ At(d.nodes, chain[k]).label = At(d.labels, unit_id + n - k)

\* DawgBuilder::find_node: the stored unit equal to the node, or 0
FindNode(d, node_id) ==
  IF \E u \in d.table : AreEqual(d, node_id, u)
  THEN CHOOSE u \in d.table : AreEqual(d, node_id, u)
  ELSE 0

\* one round of the loop of DawgBuilder::flush: the top of the stack is
\* merged with an equal stored state or stored as new units
FlushNode(d) ==
  LET node_id == Last(d.node_stack)
      chain == SiblingChain(d.nodes, node_id)
      n == Len(chain)
      found == FindNode(d, node_id)
      match_id == IF found # 0 THEN found ELSE Len(d.units)
      top == d.node_stack[Len(d.node_stack) - 1]
  IN [d EXCEPT
        !.node_stack = SubSeq(@, 1, Len(@) - 1),
        !._is_intersections =
          IF found # 0 THEN SetAt(@, found, TRUE) ELSE @ \o [k \in 1..n |-> FALSE],
        !.units =
          IF found # 0 THEN @
          ELSE @ \o [k \in 1..n |-> DawgNodeUnit(At(d.nodes, chain[n + 1 - k]))],
        !.labels =
          IF found # 0 THEN @
          ELSE @ \o [k \in 1..n |-> At(d.nodes, chain[n + 1 - k]).label],
        !.table = IF found # 0 THEN @ ELSE @ \cup {match_id},
        !.num_states = IF found # 0 THEN @ ELSE @ + 1,
        !.recycle_bin = @ \o chain,
        !.nodes = [@ EXCEPT ![top + 1].child = match_id]]

\* DawgBuilder::flush
RECURSIVE Flush(_, _)
Flush(d, id) ==
  IF Last(d.node_stack) = id
  THEN [d EXCEPT !.node_stack = SubSeq(@, 1, Len(@) - 1)]
  ELSE Flush(FlushNode(d), id)

\* the first loop of DawgBuilder::insert: down the nodes the key shares with
\* the key before it
RECURSIVE InsertWalk(_, _, _, _, _)
InsertWalk(d, key, length, id, key_pos) ==
  LET child_id == At(d.nodes, id).child
      here == [d |-> d, id |-> id, key_pos |-> key_pos]
  IN IF key_pos > length \/ child_id = 0 THEN here
     ELSE IF key_pos >= Len(key)
       THEN [here EXCEPT !.d.panic = "index out of bounds"]
     ELSE IF key_pos < length /\ At(key, key_pos) = 0
       THEN [here EXCEPT !.d.panic = "failed to insert key: invalid null character"]
     ELSE IF At(key, key_pos) > At(d.nodes, child_id).label
       THEN [here EXCEPT
               !.d = Flush([d EXCEPT !.nodes[child_id + 1].has_sibling = TRUE],
                           child_id)]
     ELSE IF At(key, key_pos) < At(d.nodes, child_id).label
       THEN [here EXCEPT !.d.panic = "failed to insert key: wrong key order"]
     ELSE InsertWalk(d, key, length, child_id, key_pos + 1)

\* the second loop of DawgBuilder::insert: a node for each byte left and
\* one of label 0 that holds the value
RECURSIVE InsertRest(_, _, _, _, _, _)
InsertRest(d, key, length, value, id, key_pos) ==
  IF key_pos > length
  THEN [d EXCEPT !.nodes[id + 1].child = value]
  ELSE LET key_label == IF key_pos < length THEN At(key, key_pos) ELSE 0
           appended == AppendNode(d)
           Linked(a) ==
             [a.d EXCEPT
                !.nodes[a.id + 1] =
                  [@ EXCEPT !.is_state = (At(d.nodes, id).child = 0),
                            !.sibling = At(d.nodes, id).child,
                            !.label = key_label],
                !.nodes[id + 1].child = a.id,
                !.node_stack = Append(@, a.id)]
       IN InsertRest(Linked(appended), key, length, value, appended.id, key_pos + 1)

\* DawgBuilder::insert
DawgInsert(d, key, length, value) ==
  LET Rest(w) ==
        IF w.d.panic # "" \/ w.key_pos > length THEN w.d
        ELSE InsertRest(w.d, key, length, value, w.id, w.key_pos)
  IN Rest(InsertWalk(d, key, length, 0, 0))

\* DawgBuilder::finish
DawgFinish(d) ==
  LET Cleared(f) ==
        [f EXCEPT !.units = SetAt(@, 0, DawgNodeUnit(At(f.nodes, 0))),
                  !.labels = SetAt(@, 0, At(f.nodes, 0).label),
                  !.nodes = <<>>,
                  !.table = {},
                  !.node_stack = <<>>,
                  !.recycle_bin = <<>>,
                  !.is_intersections = f._is_intersections,
                  !._is_intersections = <<>>]
  IN Cleared(Flush(d, 0))

\* DoubleArrayBuilder::build_dawg: the keys inserted from key_id on
RECURSIVE BuildDawgFrom(_, _, _, _)
BuildDawgFrom(d, keys, values, key_id) ==
  IF d.panic # "" THEN d
  ELSE IF key_id >= Len(keys) THEN DawgFinish(d)
  ELSE BuildDawgFrom(DawgInsert(d, At(keys, key_id), Len(At(keys, key_id)),
                                At(values, key_id)),
                     keys, values, key_id + 1)

BuildDawg(keys, values) == BuildDawgFrom(DawgInit, keys, values, 0)

----------------------------------------------------------------------------
\* darts: the units of the double array and DoubleArrayBuilder.

BLOCK_SIZE == 256
NUM_EXTRA_BLOCKS == 16
NUM_EXTRAS == BLOCK_SIZE * NUM_EXTRA_BLOCKS
LOWER_MASK == 255
\* 0xFF << 21
UpperMaskShift == 2097152

\* offset & UPPER_MASK and offset & LOWER_MASK
AndUpperMask(x) == ((x \div UpperMaskShift) % 256) * UpperMaskShift
AndLowerMask(x) == x % (LOWER_MASK + 1)

\* A u32 unit is its bit 31 and its bits 0..30.
Unit(b31, low) == [b31 |-> b31, low |-> low]

\* DoubleArrayBuilderUnit for u32
SetHasLeaf(u, has_leaf) ==
  IF has_leaf
  THEN IF (u.low \div 256) % 2 = 1 THEN u ELSE [u EXCEPT !.low = @ + 256]
  ELSE IF (u.low \div 256) % 2 = 1 THEN [u EXCEPT !.low = @ - 256] ELSE u

\* value | (1 << 31)
SetValue(u, value) == Unit(TRUE, IF value <= I32Max THEN value ELSE value - I32Max - 1)

SetLabel(u, label) == [u EXCEPT !.low = @ - (@ % 256) + label]

\* set_offset of an offset below 1 << 29: bits 31, 8 and 0..7 stay
SetOffset(u, offset) ==
  [u EXCEPT !.low = (@ % 512) + (IF offset < 2 ^ 21
                                   THEN offset * 1024
                                   ELSE offset * 4 + 512)]

\* DoubleArrayUnit for u32
UnitOffset(u) ==
  ((IF u.b31 THEN 2 ^ 21 ELSE 0) + (u.low \div 1024))
    * (IF (u.low \div 512) % 2 = 1 THEN 256 ELSE 1)

\* (self & ((1 << 31) | 0xFF)) as u8: the cast drops bit 31
UnitLabel(u) == u.low % 256

HasLeaf(u) == (u.low \div 256) % 2 = 1

UnitValue(u) == u.low

\* DoubleArrayBuilderExtraUnit::new()
ExtraNew == [prev |-> 0, next |-> 0, is_fixed |-> FALSE, is_used |-> FALSE]

\* DoubleArrayBuilder::new()
BuilderNew ==
  [labels |-> <<>>, units |-> <<>>, extras |-> <<>>, table |-> <<>>,
   extras_head |-> 0, panic |-> ""]

\* DoubleArrayBuilder::get_extra; extras is indexed from 0
GetExtra(b, id) == b.extras[id % NUM_EXTRAS]

\* self.units[id].op(arg), or the panic of the index or of set_offset
UpdateUnit(b, id, op, arg) ==
  IF b.panic # "" THEN b
  ELSE IF id >= Len(b.units) THEN [b EXCEPT !.panic = "index out of bounds"]
  ELSE IF op = "set_offset" /\ arg >= 2 ^ 29
    THEN [b EXCEPT !.panic = "failed to modify unit: too large offset"]
  ELSE [b EXCEPT !.units[id + 1] =
          CASE op = "set_offset" -> SetOffset(@, arg)
            [] op = "set_label" -> SetLabel(@, arg)
            [] op = "set_value" -> SetValue(@, arg)
            [] op = "set_has_leaf" -> SetHasLeaf(@, arg)]

RECURSIVE ReserveId(_, _)
RECURSIVE FixBlock(_, _)

\* DoubleArrayBuilder::expand_units
ExpandUnits(b) ==
  LET src_num_units == Len(b.units)
      src_num_blocks == src_num_units \div BLOCK_SIZE
      dest_num_units == src_num_units + BLOCK_SIZE
      dest_num_blocks == src_num_blocks + 1
      \* the id of the new block that extras slot j stands for, if any
      IdOf(j) ==
        src_num_units + ((j + NUM_EXTRAS - (src_num_units % NUM_EXTRAS)) % NUM_EXTRAS)
      Fixed(f) ==
        IF dest_num_blocks > NUM_EXTRA_BLOCKS
        THEN FixBlock(f, src_num_blocks - NUM_EXTRA_BLOCKS)
        ELSE f
      Resized(f) ==
        [f EXCEPT !.units =
           IF Len(@) >= dest_num_units THEN SubSeq(@, 1, dest_num_units)
           ELSE @ \o [k \in 1..(dest_num_units - Len(@)) |-> Unit(FALSE, 0)]]
      Reset(f) ==
        IF dest_num_blocks > NUM_EXTRA_BLOCKS
        THEN [f EXCEPT !.extras =
                [j \in DOMAIN f.extras |->
                   IF \E id \in src_num_units..(dest_num_blocks - 1) : id % NUM_EXTRAS = j
                   THEN [f.extras[j] EXCEPT !.is_used = FALSE, !.is_fixed = FALSE]
                   ELSE f.extras[j]]]
        ELSE f
      Chained(f) ==
        [f EXCEPT !.extras =
           [j \in DOMAIN f.extras |->
              IF IdOf(j) < dest_num_units
              THEN [f.extras[j] EXCEPT
                      !.next = IF IdOf(j) < dest_num_units - 1 THEN IdOf(j) + 1 ELSE @,
                      !.prev = IF IdOf(j) > src_num_units THEN IdOf(j) - 1 ELSE @]
              ELSE f.extras[j]]]
      Set(f, id, field, v) ==
        [f EXCEPT !.extras[id % NUM_EXTRAS] =
           IF field = "prev" THEN [@ EXCEPT !.prev = v] ELSE [@ EXCEPT !.next = v]]
      Ring1(f) == Set(f, src_num_units, "prev", dest_num_units - 1)
      Ring2(f) == Set(f, dest_num_units - 1, "next", src_num_units)
      Ring3(f) == Set(f, src_num_units, "prev", GetExtra(f, f.extras_head).prev)
      Ring4(f) == Set(f, dest_num_units - 1, "next", f.extras_head)
      Ring5(f) == Set(f, GetExtra(f, f.extras_head).prev, "next", src_num_units)
      Ring6(f) == Set(f, f.extras_head, "prev", dest_num_units - 1)
  IN IF b.panic # "" THEN b
     ELSE IF DOMAIN b.extras = {} THEN [b EXCEPT !.panic = "remainder or index of empty extras"]
     ELSE Ring6(Ring5(Ring4(Ring3(Ring2(Ring1(Chained(Reset(Resized(Fixed(b))))))))))

\* DoubleArrayBuilder::reserve_id.  It leaves is_fixed alone.
ReserveId(b, id) ==
  LET Expanded(f) == IF id >= Len(f.units) THEN ExpandUnits(f) ELSE f
      Headed(f) ==
        IF f.panic = "" /\ id = f.extras_head
        THEN [f EXCEPT !.extras_head =
                IF GetExtra(f, id).next = id THEN Len(f.units) ELSE GetExtra(f, id).next]
        ELSE f
      Unlinked(f) ==
        IF f.panic # "" THEN f
        ELSE [f EXCEPT
                !.extras[GetExtra(f, id).prev % NUM_EXTRAS].next = GetExtra(f, id).next,
                !.extras[GetExtra(f, id).next % NUM_EXTRAS].prev = GetExtra(f, id).prev]
  IN Unlinked(Headed(Expanded(b)))

\* DoubleArrayBuilder::fix_block, whose range ends at start * BLOCK_SIZE
FixBlock(b, block_id) ==
  LET start == block_id * BLOCK_SIZE
      end == start * BLOCK_SIZE
      unused == {offset \in start..(end - 1) : ~GetExtra(b, offset).is_used}
      unused_offset ==
        IF unused = {} THEN 0 ELSE CHOOSE o \in unused : \A p \in unused : o <= p
      RECURSIVE FixFrom(_, _)
      FixFrom(f, id) ==
        IF id >= end \/ f.panic # "" THEN f
        ELSE IF GetExtra(f, id).is_fixed THEN FixFrom(f, id + 1)
        ELSE FixFrom(UpdateUnit(ReserveId(f, id), id, "set_label",
                                Xor(id, unused_offset) % 256),
                     id + 1)
  IN FixFrom(b, start)

\* DoubleArrayBuilder::fix_all_blocks
FixAllBlocks(b) ==
  LET num_blocks == Len(b.units) \div BLOCK_SIZE
      start == IF num_blocks > NUM_EXTRA_BLOCKS THEN num_blocks - NUM_EXTRA_BLOCKS ELSE 0
      RECURSIVE FixBlocksFrom(_, _)
      FixBlocksFrom(f, block_id) ==
        IF block_id >= num_blocks THEN f
        ELSE FixBlocksFrom(FixBlock(f, block_id), block_id + 1)
  IN FixBlocksFrom(b, start)

\* DoubleArrayBuilder::is_valid_offset, which tests rel_offset ^ LOWER_MASK
IsValidOffset(b, id, offset) ==
  LET rel_offset == Xor(id, offset)
  IN /\ ~GetExtra(b, offset).is_used
     /\ ~(Xor(rel_offset, LOWER_MASK) > 0 /\ AndUpperMask(rel_offset) > 0)
     /\ \A i \in 1..(Len(b.labels) - 1) :
          ~GetExtra(b, Xor(offset, At(b.labels, i))).is_fixed

\* DoubleArrayBuilder::find_valid_offset
FindValidOffset(b, id) ==
  LET beyond == Len(b.units) + AndLowerMask(id)
      RECURSIVE From(_)
      From(unfixed_id) ==
        IF IsValidOffset(b, id, Xor(unfixed_id, At(b.labels, 0)))
        THEN Xor(unfixed_id, At(b.labels, 0))
        ELSE IF GetExtra(b, unfixed_id).next = b.extras_head THEN beyond
        ELSE From(GetExtra(b, unfixed_id).next)
  IN IF b.extras_head >= Len(b.units) THEN beyond ELSE From(b.extras_head)

\* DoubleArrayBuilder::arrange_from_dawg_builder: the builder after it, and
\* the offset it returns
ArrangeFromDawgBuilder(b, d, dawg_id, dict_id) ==
  LET RECURSIVE ChildrenFrom(_)
      ChildrenFrom(c) == IF c = 0 THEN <<>> ELSE <<c>> \o ChildrenFrom(DawgSibling(d, c))
      children == ChildrenFrom(DawgChild(d, dawg_id))
      labelled == [b EXCEPT !.labels = [k \in 1..Len(children) |-> DawgLabel(d, children[k])]]
      offset == FindValidOffset(labelled, dict_id)
      RECURSIVE Place(_, _)
      Place(f, i) ==
        IF i >= Len(children) \/ f.panic # "" THEN f
        ELSE LET dict_child_id == Xor(offset, At(labelled.labels, i))
                 Stored(r) ==
                   IF IsLeaf(d, At(children, i))
                   THEN UpdateUnit(UpdateUnit(r, dict_id, "set_has_leaf", TRUE),
                                   dict_child_id, "set_value", DawgValue(d, At(children, i)))
                   ELSE UpdateUnit(r, dict_child_id, "set_label", At(labelled.labels, i))
             IN Place(Stored(ReserveId(f, dict_child_id)), i + 1)
      Used(f) ==
        IF f.panic # "" THEN f
        ELSE [f EXCEPT !.extras[offset % NUM_EXTRAS].is_used = TRUE]
  IN [b |-> Used(Place(UpdateUnit(labelled, dict_id, "set_offset", Xor(dict_id, offset)), 0)),
      offset |-> offset]

\* DoubleArrayBuilder::_build_from_dawg
RECURSIVE BuildFromDawgAt(_, _, _, _)
BuildFromDawgAt(b, d, dawg_id, dict_id) ==
  LET child_id == DawgChild(d, dawg_id)
      intersection == At(d.is_intersections, child_id)
      intersection_id == IntersectionId(d, child_id)
      shared == IF intersection THEN Xor(At(b.table, intersection_id), dict_id) ELSE 0
      reuse == /\ intersection
               /\ At(b.table, intersection_id) # 0
               /\ (AndUpperMask(shared) = 0 \/ AndLowerMask(shared) = 0)
      Tabled(a) ==
        IF intersection /\ a.b.panic = ""
        THEN [a EXCEPT !.b.table = SetAt(@, intersection_id, a.offset)]
        ELSE a
      RECURSIVE Children(_, _, _)
      Children(f, c, offset) ==
        IF c = 0 \/ f.panic # "" THEN f
        ELSE Children(IF DawgLabel(d, c) # 0
                      THEN BuildFromDawgAt(f, d, c, Xor(offset, DawgLabel(d, c)))
                      ELSE f,
                      DawgSibling(d, c), offset)
      Descend(a) == Children(a.b, child_id, a.offset)
  IN IF b.panic # "" THEN b
     ELSE IF reuse
       THEN UpdateUnit(IF IsLeaf(d, child_id)
                       THEN UpdateUnit(b, dict_id, "set_has_leaf", TRUE)
                       ELSE b,
                       dict_id, "set_offset", shared)
     ELSE Descend(Tabled(ArrangeFromDawgBuilder(b, d, dawg_id, dict_id)))

\* DoubleArrayBuilder::build_from_dawg
BuildFromDawg(b, d) ==
  LET Started(f) ==
        UpdateUnit(UpdateUnit([f EXCEPT !.extras[0].is_used = TRUE], 0, "set_offset", 1),
                   0, "set_label", 0)
      Built(f) == IF DawgChild(d, 0) # 0 THEN BuildFromDawgAt(f, d, 0, 0) ELSE f
      Cleared(f) ==
        IF f.panic # "" THEN f
        ELSE [f EXCEPT !.extras = <<>>, !.labels = <<>>, !.table = <<>>]
  IN Cleared(FixAllBlocks(Built(Started(
       ReserveId([b EXCEPT !.table = [k \in 1..NumIntersections(d) |-> 0],
                           !.extras = [j \in 0..(NUM_EXTRAS - 1) |-> ExtraNew]],
                 0)))))

\* DoubleArrayBuilder::build_from_keyset, as far as it gets: extras is still
\* empty when reserve_id(0) expands the units
BuildFromKeyset(b, keys) == ReserveId(b, 0)

\* DoubleArrayBuilder::build
DoubleArrayBuild(b, keys, values) ==
  IF values # <<>>
  THEN LET From(d) == IF d.panic # "" THEN [b EXCEPT !.panic = d.panic]
                      ELSE BuildFromDawg(b, d)
       IN From(BuildDawg(keys, values))
  ELSE BuildFromKeyset(b, keys)

\* DoubleArrayTrie::build that extends the array it had
TrieBuildExtend(trie, keys, values) ==
  LET Copied(b) ==
        IF b.panic # "" THEN [trie EXCEPT !.panic = b.panic]
        ELSE [trie EXCEPT !.array = @ \o b.units, !.size = @ + Len(b.units)]
  IN Copied(DoubleArrayBuild(BuilderNew, keys, values))

\* DoubleArrayTrie::build on a trie: a new builder builds, and its units
\* replace the array
TrieBuild(trie, keys, values) ==
  LET Copied(b) ==
        IF b.panic # "" THEN [trie EXCEPT !.panic = b.panic]
        ELSE [trie EXCEPT !.array = b.units, !.size = Len(b.units)]
  IN Copied(DoubleArrayBuild(BuilderNew, keys, values))

\* DoubleArrayTrie::common_prefix_search: the pairs (value, length) found,
\* or the panic of an index beyond the array
CommonPrefixSearch(array, key) ==
  LET length == Len(key)
      RECURSIVE Search(_, _, _, _)
      Search(i, node_pos, num_results, results) ==
        IF i >= length THEN [results |-> results, panic |-> ""]
        ELSE LET pos == Xor(node_pos, At(key, i))
                 Step(unit) ==
                   IF UnitLabel(unit) # At(key, i)
                   THEN [results |-> results, panic |-> ""]
                   ELSE IF ~HasLeaf(unit)
                     THEN Search(i + 1, Xor(pos, UnitOffset(unit)), num_results, results)
                   ELSE IF Xor(pos, UnitOffset(unit)) >= Len(array)
                     THEN [results |-> results, panic |-> "index out of bounds"]
                   ELSE Search(i + 1, Xor(pos, UnitOffset(unit)), num_results + 1,
                               IF num_results < length
                               THEN Append(results,
                                           <<UnitValue(At(array, Xor(pos, UnitOffset(unit)))),
                                             i + 1>>)
                               ELSE results)
             IN IF pos >= Len(array)
                THEN [results |-> results, panic |-> "index out of bounds"]
                ELSE Step(At(array, pos))
  IN IF array = <<>> THEN [results |-> <<>>, panic |-> "index out of bounds"]
     ELSE Search(0, UnitOffset(At(array, 0)), 0, <<>>)

----------------------------------------------------------------------------
\* SpecTrie: a DoubleArrayTrie is built from a key list, searched, and built
\* again from the same list.

\* the bytes of the keys: 'a' and 'b'
TrieBytes == {97, 98}

\* the non-empty keys, and the texts searched
TrieKeys == SeqsUpTo(TrieBytes, MaxKeyLen) \ {<<>>}
TrieTexts == SeqsUpTo(TrieBytes, MaxKeyLen)

\* a < b as byte strings
RECURSIVE KeyLess(_, _)
KeyLess(a, b) ==
  IF b = <<>> THEN FALSE
  ELSE IF a = <<>> THEN TRUE
  ELSE IF Head(a) # Head(b) THEN Head(a) < Head(b)
  ELSE KeyLess(Tail(a), Tail(b))

\* the key lists in ascending order without duplicates, the empty one too
TrieKeyLists ==
  {keys \in SeqsUpTo(TrieKeys, MaxKeys) :
     \A i \in 1..(Len(keys) - 1) : KeyLess(keys[i], keys[i + 1])}

TrieValues == 0..MaxTrieValue

\* the DoubleArrayTrie of the state
TheTrie == [array |-> trie_array, size |-> trie_size, panic |-> ""]

\* a build has ended: the trie holds the array, or the call has panicked
BuildEnded(keys, values, trie, pc) ==
  /\ trie_keys' = keys
  /\ trie_values' = values
  /\ trie_array' = trie.array
  /\ trie_size' = trie.size
  /\ trie_pc' = IF trie.panic # "" THEN "panicked" ELSE pc
  /\ trie_first' =
       IF trie_first.built \/ trie.panic # "" THEN trie_first
       ELSE [built |-> TRUE, array |-> trie.array, size |-> trie.size]
  /\ trie_query' = NoQuery
  /\ UNCHANGED notTrie

\* trie.build(&keys, &values) on a new trie
DoTrieBuild ==
  /\ trie_pc = "new"
  /\ \E keys \in TrieKeyLists :
       \E values \in [1..Len(keys) -> TrieValues] :
         BuildEnded(keys, values, TrieBuild(TheTrie, keys, values), "built")

\* the same call once more on the same trie
DoTrieBuildAgain ==
  /\ trie_pc = "built"
  /\ BuildEnded(trie_keys, trie_values, TrieBuild(TheTrie, trie_keys, trie_values), "rebuilt")

\* trie.common_prefix_search(text)
DoCommonPrefixSearch ==
  /\ trie_pc \in {"built", "rebuilt"}
  /\ \E text \in TrieTexts :
       LET found == CommonPrefixSearch(trie_array, text)
       IN /\ trie_query' = [called |-> TRUE, key |-> text,
                            results |-> found.results, panic |-> found.panic]
          /\ trie_pc' = IF found.panic # "" THEN "panicked" ELSE trie_pc
  /\ UNCHANGED <<trie_keys, trie_values, trie_array, trie_size, trie_first>>
  /\ UNCHANGED notTrie

TrieNext == DoTrieBuild \/ DoTrieBuildAgain \/ DoCommonPrefixSearch

InitTrie == TrieIdle /\ BuilderIdle /\ CatIdle /\ LexIdle /\ TokIdle /\ LockIdle /\ DictIdle /\ CallIdle

SpecTrie == InitTrie /\ [][TrieNext]_vars

\* the pairs (value, length) of the stored keys that are prefixes of text, in
\* increasing length
StoredPrefixes(keys, values, text) ==
  LET IsStored(n) == \E k \in 1..Len(keys) : keys[k] = SubSeq(text, 1, n)
      ValueOf(n) == values[CHOOSE k \in 1..Len(keys) : keys[k] = SubSeq(text, 1, n)]
      RECURSIVE From(_)
      From(n) ==
        IF n > Len(text) THEN <<>>
        ELSE (IF IsStored(n) THEN <<<<ValueOf(n), n>>>> ELSE <<>>) \o From(n + 1)
  IN From(1)

\* C12: after build, common_prefix_search(q) returns exactly the pairs
\* (value(k), len(k)) of the stored keys k that are prefixes of q, in
\* increasing length
C12_SearchFindsStoredPrefixes ==
  trie_query.called =>
    /\ trie_query.panic = ""
    /\ trie_query.results = StoredPrefixes(trie_keys, trie_values, trie_query.key)

\* the trie built from the key "a" with value 0 is searched for "a" and
\* nothing is found
SearchMissesStoredKey ==
  /\ trie_keys = <<<<97>>>>
  /\ trie_values = <<0>>
  /\ trie_query.called
  /\ trie_query.key = <<97>>
  /\ trie_query.results = <<>>

----------------------------------------------------------------------------
\* Properties of tokenize: the empty text.

\* C14: tokenize of the empty string, in any split mode, returns an empty
\* result, a morpheme list of zero morphemes, and reports no error
C14_EmptyTextEmptyList ==
  (tok_result.called /\ tok_result.text = <<>>) =>
    /\ tok_result.kind = "some"
    /\ tok_result.path = <<>>

\* the empty text gets what a text whose rewriting failed gets: None
EmptyTextReturnsNone ==
  /\ tok_result.called
  /\ tok_result.text = <<>>
  /\ tok_result.kind = "none"

----------------------------------------------------------------------------
\* SpecDict: binary dictionary files are read as system or user dictionaries.

\* Most dictionaries read successfully.
MaxLoaded == 2

\* The header versions.  dictionary_lib/system_dictionary_version.rs declares
\* them as five different u64 values; a version stands for itself here, and
\* UNKNOWN_VERSION for any other value of the header field.
SYSTEM_DICT_VERSION_1 == "SYSTEM_DICT_v1"
SYSTEM_DICT_VERSION_2 == "SYSTEM_DICT_v2"
USER_DICT_VERSION_1 == "USER_DICT_v1"
USER_DICT_VERSION_2 == "USER_DICT_v2"
USER_DICT_VERSION_3 == "USER_DICT_v3"
UNKNOWN_VERSION == "unknown"

HeaderVersions ==
  {SYSTEM_DICT_VERSION_1, SYSTEM_DICT_VERSION_2, USER_DICT_VERSION_1, USER_DICT_VERSION_2,
   USER_DICT_VERSION_3, UNKNOWN_VERSION}

\* a dictionary file: whether its header and what follows the header can be
\* read to the end, and the version in the header
DictionaryFiles == [header : BOOLEAN, version : HeaderVersions, body : BOOLEAN]

\* BinaryDictionary::read_dictionary_from_reader: Ok with the header, or the error
ReadDictionaryFromReader(file) ==
  IF ~file.header THEN [ok |-> FALSE, err |-> "DictionaryHeaderErr"]
  ELSE IF /\ SYSTEM_DICT_VERSION_1 # file.version
          /\ SYSTEM_DICT_VERSION_2 # file.version
          /\ USER_DICT_VERSION_1 # file.version
          /\ USER_DICT_VERSION_2 # file.version
          /\ USER_DICT_VERSION_3 # file.version
    THEN [ok |-> FALSE, err |-> "InvalidDictionaryVersionErr"]
  ELSE IF file.version = USER_DICT_VERSION_1
    THEN [ok |-> FALSE, err |-> "NotFoundGrammarErr"]
  ELSE IF ~file.body THEN [ok |-> FALSE, err |-> "IOError"]
  ELSE [ok |-> TRUE, err |-> "", version |-> file.version]

\* BinaryDictionary::from_system_dictionary
FromSystemDictionary(file) ==
  LET Checked(dictionary) ==
        IF ~dictionary.ok THEN dictionary
        ELSE IF /\ dictionary.version # SYSTEM_DICT_VERSION_1
                /\ dictionary.version # SYSTEM_DICT_VERSION_2
          THEN [ok |-> FALSE, err |-> "InvalidSystemDictionaryErr"]
        ELSE dictionary
  IN Checked(ReadDictionaryFromReader(file))

\* BinaryDictionary::from_user_dictionary
FromUserDictionary(file) ==
  LET Checked(dictionary) ==
        IF ~dictionary.ok THEN dictionary
        ELSE IF /\ USER_DICT_VERSION_1 # dictionary.version
                /\ USER_DICT_VERSION_2 # dictionary.version
          THEN [ok |-> FALSE, err |-> "InvalidUserDictionaryErr"]
        ELSE dictionary
  IN Checked(ReadDictionaryFromReader(file))

\* a read has returned
DictionaryRead(role, file, result) ==
  /\ dict_read' = [called |-> TRUE, role |-> role, file |-> file, ok |-> result.ok,
                   err |-> result.err]
  /\ dict_loaded' = IF result.ok THEN Append(dict_loaded, result.version) ELSE dict_loaded
  /\ UNCHANGED notDict

\* Dictionary::read_system_dictionary(filename)
DoFromSystemDictionary ==
  /\ Len(dict_loaded) < MaxLoaded
  /\ \E file \in DictionaryFiles : DictionaryRead("system", file, FromSystemDictionary(file))

\* BinaryDictionary::from_user_dictionary(filename)
DoFromUserDictionary ==
  /\ Len(dict_loaded) < MaxLoaded
  /\ \E file \in DictionaryFiles : DictionaryRead("user", file, FromUserDictionary(file))

DictNext == DoFromSystemDictionary \/ DoFromUserDictionary

InitDict ==
  DictIdle /\ BuilderIdle /\ CatIdle /\ LexIdle /\ TokIdle /\ LockIdle /\ TrieIdle /\ CallIdle

SpecDict == InitDict /\ [][DictNext]_vars

\* the file of the last read is whole: nothing but its version can fail it
WholeFileRead == dict_read.called /\ dict_read.file.header /\ dict_read.file.body

\* C15: a dictionary file is accepted iff its version is recognized for the
\* role it is loaded in: SYSTEM_DICT_v1 and v2 as system dictionaries,
\* USER_DICT_v1, v2 and v3 as user dictionaries; any version that is none of
\* the five fails with invalid-dictionary-version
C15_AcceptedByRole ==
  WholeFileRead =>
    /\ dict_read.ok <=>
         \/ /\ dict_read.role = "system"
            /\ dict_read.file.version \in {SYSTEM_DICT_VERSION_1, SYSTEM_DICT_VERSION_2}
         \/ /\ dict_read.role = "user"
            /\ dict_read.file.version \in
                 {USER_DICT_VERSION_1, USER_DICT_VERSION_2, USER_DICT_VERSION_3}
    /\ dict_read.file.version = UNKNOWN_VERSION =>
         dict_read.err = "InvalidDictionaryVersionErr"

\* a whole USER_DICT_v3 file is refused as a user dictionary
UserV3Refused ==
  /\ WholeFileRead
  /\ dict_read.role = "user"
  /\ dict_read.file.version = USER_DICT_VERSION_3
  /\ dict_read.err = "InvalidUserDictionaryErr"
----------------------------------------------------------------------------
\* The fill of the lattice, read from the insertions the call recorded.

\* the bytes of the input text of the call
TextLength == Len(tok_result.input.bytes)

\* C16: every node the fill inserted, from the lexicon or from a provider,
\* has start < end <= N, starts at a position where can_bow holds and where
\* end_lists[start] held a node when it was inserted, and, when it is a
\* lexicon node, ends at N or at a position where can_bow holds.
C16_InsertedNodes ==
  tok_result.called =>
    \A k \in 1..Len(tok_result.inserts) :
      LET e == tok_result.inserts[k]
      IN /\ e.node.start = e.start
         /\ e.start < e.node.end
         /\ e.node.end <= TextLength
         /\ CanBow(tok_result.input, e.start)
         /\ e.l_nodes # <<>>
         /\ e.node.has_lexicon =>
              (e.node.end = TextLength \/ CanBow(tok_result.input, e.node.end))

\* a fill that inserted a lexicon node ending inside the text and a node of a
\* provider, at a position where the lookup had a pair the fill left out
C16_Witness ==
  /\ tok_result.called
  /\ tok_result.kind = "some"
  /\ \E k \in 1..Len(tok_result.inserts) :
       /\ tok_result.inserts[k].node.has_lexicon
       /\ tok_result.inserts[k].node.end < TextLength
  /\ \E k \in 1..Len(tok_result.inserts) :
       /\ tok_result.inserts[k].node.is_oov
       /\ \E pair \in Range(LexiconSetLookup(lexicons, tok_result.input.bytes,
                                             tok_result.inserts[k].start).pairs) :
            /\ pair.length < TextLength
            /\ ~CanBow(tok_result.input, pair.length)

\* the fill inserted a lexicon node starting at i
LexiconWordsAt(i) ==
  \E j \in 1..Len(tok_result.inserts) :
    tok_result.inserts[j].start = i /\ tok_result.inserts[j].node.has_lexicon

\* the fill had inserted a node starting at i before the call of get_oov
InsertedBefore(call) ==
  \E j \in 1..call.inserted_before : tok_result.inserts[j].start = call.i

----------------------------------------------------------------------------
\* connect_node, read from the insertions the call recorded.

\* the places in end_lists[R.start], as connect_node saw it, of the nodes
\* that are connected to BOS and whose connection to R is not inhibited
Predecessors(insertion) ==
  {k \in 0..(Len(insertion.l_nodes) - 1) :
     /\ At(insertion.l_nodes, k).is_connected_to_bos
     /\ GetConnectCost(matrix_view, At(insertion.l_nodes, k).right_id,
                       insertion.node.left_id) # INHIBITED_CONNECTION}

\* L.total_cost + connect_cost for the node at place k
CandidateCost(insertion, k) ==
  At(insertion.l_nodes, k).total_cost
    + GetConnectCost(matrix_view, At(insertion.l_nodes, k).right_id, insertion.node.left_id)

\* a path of connections that are not inhibited leads from BOS to the node
RECURSIVE PathFromBos(_, _)
PathFromBos(lattice, node) ==
  IF node.end = 0 THEN TRUE
  ELSE \E k \in 0..(Len(At(lattice.end_lists, node.start)) - 1) :
         LET l_node == At(At(lattice.end_lists, node.start), k)
         IN /\ GetConnectCost(matrix_view, l_node.right_id, node.left_id)
                 # INHIBITED_CONNECTION
            /\ PathFromBos(lattice, l_node)

\* C18: an inserted node R is connected to BOS iff end_lists[R.start] held a
\* node L connected to BOS whose connection to R is not inhibited; then
\* best_previous_node is such an L of least L.total_cost + connect_cost and
\* R.total_cost is that sum plus R.cost.  So the nodes marked connected are
\* those a path of connections that are not inhibited reaches from BOS.
C18_ConnectNode ==
  tok_result.called =>
    /\ \A j \in 1..Len(tok_result.inserts) :
         LET insertion == tok_result.inserts[j]
             R == insertion.node
         IN /\ R.is_connected_to_bos <=> Predecessors(insertion) # {}
            /\ R.is_connected_to_bos =>
                 /\ R.best_previous_node.some
                 /\ R.best_previous_node.end = insertion.start
                 /\ R.best_previous_node.index \in Predecessors(insertion)
                 /\ \A k \in Predecessors(insertion) :
                      CandidateCost(insertion, R.best_previous_node.index)
                        <= CandidateCost(insertion, k)
                 /\ R.total_cost
                      = CandidateCost(insertion, R.best_previous_node.index) + R.cost
    /\ \A end \in 1..(Len(tok_result.lattice.end_lists) - 1) :
         \A k \in 0..(Len(At(tok_result.lattice.end_lists, end)) - 1) :
           LET node == At(At(tok_result.lattice.end_lists, end), k)
           IN node.is_connected_to_bos <=> PathFromBos(tok_result.lattice, node)

\* a call that inserted a node with two predecessors to choose from and one
\* it could not take, and a node that no path reaches
C18_Witness ==
  /\ tok_result.called
  /\ tok_result.kind = "some"
  /\ \E j \in 1..Len(tok_result.inserts) :
       /\ Cardinality(Predecessors(tok_result.inserts[j])) >= 2
       /\ Cardinality(Predecessors(tok_result.inserts[j]))
            < Len(tok_result.inserts[j].l_nodes)
  /\ \E j \in 1..Len(tok_result.inserts) :
       ~tok_result.inserts[j].node.is_connected_to_bos

\* the places of the predecessors of least L.total_cost + connect_cost
Cheapest(insertion) ==
  {k \in Predecessors(insertion) :
     \A other \in Predecessors(insertion) :
       CandidateCost(insertion, k) <= CandidateCost(insertion, other)}

\* C19: of the predecessors in end_lists[s] that give a new node the same
\* least path cost, the one pushed to end_lists[s] first becomes its best
\* previous node: the choice is fixed by the costs and the order of insertion.
C19_EarliestOfTheCheapest ==
  tok_result.called =>
    \A j \in 1..Len(tok_result.inserts) :
      LET insertion == tok_result.inserts[j]
      IN Predecessors(insertion) # {} =>
           /\ insertion.node.best_previous_node.some
           /\ insertion.node.best_previous_node.end = insertion.start
           /\ insertion.node.best_previous_node.index \in Cheapest(insertion)
           /\ \A k \in Cheapest(insertion) : insertion.node.best_previous_node.index <= k

\* a node inserted where two predecessors give the same least cost and a
\* third, pushed before them, gives more
C19_Witness ==
  /\ tok_result.called
  /\ \E j \in 1..Len(tok_result.inserts) :
       /\ Cardinality(Cheapest(tok_result.inserts[j])) >= 2
       /\ \E k \in Predecessors(tok_result.inserts[j]) \ Cheapest(tok_result.inserts[j]) :
            \A c \in Cheapest(tok_result.inserts[j]) : k < c

----------------------------------------------------------------------------
\* split_path, read from the path the call returned.

\* the split list split_path reads for a node of the best path
SplitListOf(node) ==
  IF tok_result.mode = "A" THEN NodeWordInfo(node).a_unit_split
  ELSE IF tok_result.mode = "B" THEN NodeWordInfo(node).b_unit_split
  ELSE <<>>

\* the nodes of the returned path that stand for node k of the best path
PathLengthOf(node) == IF Len(SplitListOf(node)) <= 1 THEN 1 ELSE Len(SplitListOf(node))

RECURSIVE PathLengthBefore(_)
PathLengthBefore(k) ==
  IF k <= 1 THEN 0
  ELSE PathLengthBefore(k - 1) + PathLengthOf(tok_result.best_path[k - 1])

Replacement(k) ==
  SubSeq(tok_result.path, PathLengthBefore(k) + 1,
         PathLengthBefore(k) + PathLengthOf(tok_result.best_path[k]))

\* C20: the nodes that replace a node of the best path whose split list has
\* two words or more have strictly increasing starts, each ends where the
\* next starts, the first starts at the replaced node's start and the last
\* ends at the replaced node's end.
C20_ReplacementFillsTheNode ==
  (tok_result.called /\ tok_result.kind = "some") =>
    \A k \in 1..Len(tok_result.best_path) :
      LET replaced == tok_result.best_path[k]
          nodes == Replacement(k)
      IN Len(SplitListOf(replaced)) >= 2 =>
           /\ Len(nodes) = Len(SplitListOf(replaced))
           /\ \A j \in 1..(Len(nodes) - 1) :
                nodes[j].start < nodes[j + 1].start /\ nodes[j].end = nodes[j + 1].start
           /\ nodes[1].start = replaced.start
           /\ Last(nodes).end = replaced.end

\* a returned path whose replacement nodes end past the node they replace
ReplacementRunsPastTheNode ==
  /\ tok_result.called
  /\ tok_result.kind = "some"
  /\ \E k \in 1..Len(tok_result.best_path) :
       /\ Len(SplitListOf(tok_result.best_path[k])) >= 2
       /\ Replacement(k)[1].start = tok_result.best_path[k].start
       /\ Last(Replacement(k)).end > tok_result.best_path[k].end

\* a returned path whose replacement nodes fill the node they replace
ReplacementFits ==
  /\ tok_result.called
  /\ tok_result.kind = "some"
  /\ \E k \in 1..Len(tok_result.best_path) :
       /\ Len(SplitListOf(tok_result.best_path[k])) >= 2
       /\ Replacement(k)[1].start = tok_result.best_path[k].start
       /\ Last(Replacement(k)).end = tok_result.best_path[k].end
----------------------------------------------------------------------------
\* Split lists of LexiconSet::get_word_info (checked under SpecLex).

\* The lexicon that get_word_info(v as usize) reads for an entry v of a split
\* list, as split_path uses it; -1: none, the index is beyond the lexicons.
\* The entries are i32 and v as usize copies bit 31 into the bits above it, so
\* an entry whose top nibble is 8 or more has a dictionary id beyond any index.
SplitTarget(lexs, v) ==
  IF ~(v.hi < 8) THEN -1
  ELSE IF GetDictionaryId(v) >= Len(lexs) THEN -1
  ELSE GetDictionaryId(v)

\* the list get_word_info returned stands to the stored list as C21 says
Globalized(lexs, d, stored, returned) ==
  /\ Len(returned) = Len(stored)
  /\ \A i \in 1..Len(stored) :
       IF GetDictionaryId(stored[i]) # 0
         THEN /\ returned[i] = Num(d, stored[i].lo)
              /\ SplitTarget(lexs, returned[i]) = d
         ELSE /\ returned[i] = stored[i]
              /\ SplitTarget(lexs, returned[i]) = 0

\* C21: get_word_info on a word of dictionary d returns split lists in which
\* each entry with a stored dictionary index other than 0 has the index d and
\* its low 28 bits, and each entry with index 0 is unchanged; read as a word
\* id the entry names dictionary d, or the system dictionary.
C21_SplitsNameTheDictionary ==
  lex_get.called =>
    LET d == lex_get.dictionary_id
        stored == LexiconWord(At(lexicons, d), GetWordId(lex_get.word_id)).info
    IN /\ Globalized(lexicons, d, stored.a_unit_split, lex_get.word_info.a_unit_split)
       /\ Globalized(lexicons, d, stored.b_unit_split, lex_get.word_info.b_unit_split)

\* get_word_info on a word of a dictionary below 8 whose split list names a
\* user dictionary word: the entry names the dictionary of the word
SplitNamesLowDictionary ==
  /\ lex_get.called
  /\ lex_get.dictionary_id \in 2..7
  /\ lex_get.word_info.a_unit_split # <<>>
  /\ SplitTarget(lexicons, lex_get.word_info.a_unit_split[1]) = lex_get.dictionary_id

\* get_word_info on a word of dictionary 8 or above: the entry it returns
\* names no dictionary
SplitNamesNoDictionary ==
  /\ lex_get.called
  /\ lex_get.dictionary_id >= 8
  /\ lex_get.word_info.a_unit_split # <<>>
  /\ SplitTarget(lexicons, lex_get.word_info.a_unit_split[1]) = -1
----------------------------------------------------------------------------
\* BOS in the lattice of a tokenize call (checked under SpecTok).

\* end_lists[0] holds a node that is marked connected to BOS at total cost 0
HoldsBos(lattice) ==
  /\ Len(lattice.end_lists) >= 1
  /\ \E k \in 1..Len(lattice.end_lists[1]) :
       /\ lattice.end_lists[1][k].is_connected_to_bos
       /\ lattice.end_lists[1][k].total_cost = 0
       /\ lattice.end_lists[1][k].start = 0
       /\ lattice.end_lists[1][k].end = 0

\* C22: wherever a tokenize call can see its lattice (as constructed, as
\* filled, and as cleared at the end of the call) end_lists[0] holds BOS,
\* marked connected to BOS at total cost 0.
C22_BosAtZero ==
  (tok_result.called /\ tok_result.kind = "some") =>
    /\ HoldsBos(LatticeNew(NodeId(tok_result.clash, 0)))
    /\ HoldsBos(Resize(LatticeNew(NodeId(tok_result.clash, 0)), TextLength,
                       NodeId(tok_result.clash, 1)))
    /\ HoldsBos(tok_result.lattice)
    /\ HoldsBos(tok_result.cleared)

\* a call whose lattice held BOS when it was filled and holds no node at all
\* after clear
ClearRemovesBos ==
  /\ tok_result.called
  /\ tok_result.kind = "some"
  /\ HoldsBos(tok_result.lattice)
  /\ Len(tok_result.lattice.end_lists) = TextLength + 1
  /\ Len(tok_result.cleared.end_lists) = TextLength + 1
  /\ \A k \in 1..Len(tok_result.cleared.end_lists) : tok_result.cleared.end_lists[k] = <<>>
----------------------------------------------------------------------------
\* DoubleArrayLexicon::calculate_cost (dictionary_lib/double_array_lexicon.rs)
\* on the user lexicon that Dictionary::setup has read.  tokenized[w] is what
\* the tokenizer returns for the surface of word w: None, or the path costs
\* (LatticeNode::get_path_cost) of the nodes of the path.

SIGNED_SHORT_MIN == -32768
SIGNED_SHORT_MAX == 32767
USER_DICT_COST_PER_MORPH == -20

\* Words of the user lexicon.
MaxCostWords == 2

\* v as i16: the low 16 bits, read as a signed number
AsI16(v) == ((v + 32768) % 65536) - 32768

\* an i16 operation whose exact result is v: the wrapped result, and whether
\* it overflowed
OnI16(v) == [value |-> AsI16(v), overflow |-> v < SIGNED_SHORT_MIN \/ v > SIGNED_SHORT_MAX]

Min(a, b) == IF a <= b THEN a ELSE b
Max(a, b) == IF a >= b THEN a ELSE b

\* MorphemeList::get_internal_cost
GetInternalCost(path_costs) == AsI16(Last(path_costs) - path_costs[1])

\* lines 118-120: the new cost of a word whose surface has a tokenization,
\* and whether the multiplication or the addition on i16 overflowed
NewCost(path_costs) ==
  LET product == OnI16(USER_DICT_COST_PER_MORPH * AsI16(Len(path_costs)))
      sum == OnI16(GetInternalCost(path_costs) + product.value)
  IN [cost |-> Max(Min(sum.value, SIGNED_SHORT_MAX), SIGNED_SHORT_MIN),
      overflow |-> product.overflow \/ sum.overflow]

\* the loop of calculate_cost from word_id on; an overflow panics in a build
\* with overflow checks
RECURSIVE CalculateCostFrom(_, _, _)
CalculateCostFrom(costs, results, word_id) ==
  IF word_id >= Len(costs) THEN [costs |-> costs, panicked |-> FALSE]
  ELSE IF At(costs, word_id) # SIGNED_SHORT_MIN
    THEN CalculateCostFrom(costs, results, word_id + 1)
  ELSE IF ~At(results, word_id).some
    THEN CalculateCostFrom(costs, results, word_id + 1)
  ELSE LET new == NewCost(At(results, word_id).path_costs)
       IN IF overflow_checks /\ new.overflow
            THEN [costs |-> costs, panicked |-> TRUE]
            ELSE CalculateCostFrom([costs EXCEPT ![word_id + 1] = new.cost], results,
                                   word_id + 1)

\* DoubleArrayLexicon::calculate_cost
CalculateCost(costs, results) == CalculateCostFrom(costs, results, 0)

\* the costs a dictionary file stores
StoredCosts == {SIGNED_SHORT_MIN, 5}

\* the path costs of the tokenizations: one morpheme, or two with the second
\* node's path cost ordinary, far below or far above the first's
PathCosts == {<<10>>, <<10, 110>>, <<10, -32750>>, <<10, 40010>>}

Tokenizations ==
  {[some |-> FALSE, path_costs |-> <<>>]}
    \cup {[some |-> TRUE, path_costs |-> p] : p \in PathCosts}

\* Dictionary::read_user_dictionary has returned the lexicon
CostInit ==
  /\ \E n \in 1..MaxCostWords :
       /\ word_costs \in [1..n -> StoredCosts]
       /\ tokenized \in [1..n -> Tokenizations]
  /\ cost_read = word_costs
  /\ cost_pc = "read"

\* user_lexicon.calculate_cost(&tokenizer)
DoCalculateCost ==
  /\ cost_pc = "read"
  /\ LET done == CalculateCost(word_costs, tokenized)
     IN /\ word_costs' = done.costs
        /\ cost_pc' = IF done.panicked THEN "panicked" ELSE "calculated"
  /\ UNCHANGED <<tokenized, cost_read>>
  /\ UNCHANGED notCost

CostNext == DoCalculateCost

InitCost ==
  /\ CostInit
  /\ BuilderIdle /\ CatIdle /\ LexIdle /\ LockIdle /\ TrieIdle /\ DictIdle
  /\ MatIdle /\ OovIdle /\ UnkIdle /\ NormIdle /\ PsmIdle
  /\ matrix_view = <<>>
  /\ oov_provider_plugins = <<>>
  /\ input_text_plugins = <<>>
  /\ overflow_checks \in BOOLEAN
  /\ grammar_poisoned = FALSE
  /\ lexicon_set_poisoned = FALSE
  /\ logger_set = FALSE
  /\ failures = {}
  /\ tok_pc = "idle"
  /\ tok_result = NoQuery

SpecCost == InitCost /\ [][CostNext]_vars

\* clamp to the i16 range of the exact sum
Clamped(path_costs) ==
  Max(Min((Last(path_costs) - path_costs[1]) + USER_DICT_COST_PER_MORPH * Len(path_costs),
          SIGNED_SHORT_MAX),
      SIGNED_SHORT_MIN)

\* C23: after calculate_cost every word whose stored cost is the i16 minimum
\* and whose surface has a tokenization has the cost clamp(path cost + (-20) x
\* morphemes), the sum taken without 16-bit wrap-around; every word whose
\* stored cost is not the sentinel keeps its cost.
C23_CostIsTheClampedSum ==
  cost_pc # "read" =>
    /\ cost_pc = "calculated"
    /\ \A w \in 1..Len(cost_read) :
         IF cost_read[w] = SIGNED_SHORT_MIN /\ tokenized[w].some
           THEN word_costs[w] = Clamped(tokenized[w].path_costs)
         ELSE IF cost_read[w] # SIGNED_SHORT_MIN THEN word_costs[w] = cost_read[w]
         ELSE TRUE

\* a word whose sum is below the i16 range gets the wrapped sum
CostWrapped ==
  /\ cost_pc = "calculated"
  /\ \E w \in 1..Len(cost_read) :
       /\ cost_read[w] = SIGNED_SHORT_MIN
       /\ tokenized[w].some
       /\ Clamped(tokenized[w].path_costs) = SIGNED_SHORT_MIN
       /\ word_costs[w] > 0

\* a word whose sum is in the i16 range gets the sum
CostInRange ==
  /\ cost_pc = "calculated"
  /\ \E w \in 1..Len(cost_read) :
       /\ cost_read[w] = SIGNED_SHORT_MIN
       /\ tokenized[w].some
       /\ word_costs[w] = Clamped(tokenized[w].path_costs)
       /\ word_costs[w] = 60
----------------------------------------------------------------------------
\* The connection matrix from matrix.def to Grammar::get_connect_cost:
\* DictionaryBuilder::write_matrix (dictionary_lib/dictionary_builder.rs)
\* writes it, Grammar::from_reader (dictionary_lib/grammar.rs) loads it.

\* Most left ids and most right ids of a matrix.def.
MaxIds == 3

\* matrix.def with the header "lsize rsize" and one line "l r cost" for every
\* l < lsize and r < rsize, in the order of l, then r
MatrixDef(lsize, rsize, base) ==
  [called |-> TRUE, lsize |-> lsize, rsize |-> rsize,
   lines |-> [k \in 1..(lsize * rsize) |->
                [l |-> (k - 1) \div rsize, r |-> (k - 1) % rsize,
                 cost |-> base + 10 * ((k - 1) \div rsize) + ((k - 1) % rsize)]]]

\* matrix.set_position(2 * (l + lsize * r)); matrix.write_i16(cost) on the
\* cursor's vector, counted in i16 values: a write past the end fills with 0
WriteAt(matrix, index, cost) ==
  [k \in 1..Max(Len(matrix), index + 1) |->
     IF k = index + 1 THEN cost ELSE IF k <= Len(matrix) THEN matrix[k] ELSE 0]

\* the loop of write_matrix over the lines (lines 254-274)
RECURSIVE WriteLines(_, _, _, _)
WriteLines(matrix, lsize, lines, k) ==
  IF k > Len(lines) THEN matrix
  ELSE WriteLines(WriteAt(matrix, lines[k].l + lsize * lines[k].r, lines[k].cost),
                  lsize, lines, k + 1)

\* DictionaryBuilder::write_matrix: the values piped to the writer after the
\* two sizes
WriteMatrix(def) == WriteLines(<<>>, def.lsize, def.lines, 1)

\* Grammar::from_reader from the two sizes on (lines 35-53): read_i16_into
\* fails on a short file, buf[(i * left_id_size) + j] panics beyond buf
GrammarFromReader(left_id_size, right_id_size, file) ==
  LET size == left_id_size * right_id_size
      buf == SubSeq(file, 1, size)
  IN IF left_id_size = 0 \/ right_id_size = 0
       THEN [result |-> "ok", matrix_view |-> <<>>]
     ELSE IF Len(file) < size
       THEN [result |-> "io_error", matrix_view |-> <<>>]
     ELSE IF \E i \in 0..(left_id_size - 1), j \in 0..(right_id_size - 1) :
               (i * left_id_size) + j >= size
       THEN [result |-> "panicked", matrix_view |-> <<>>]
     ELSE [result |-> "ok",
           matrix_view |-> [i \in 1..left_id_size |-> [j \in 1..right_id_size |->
                              At(buf, ((i - 1) * left_id_size) + (j - 1))]]]

\* Grammar::get_connect_cost with the bounds checks of the two indexings
ConnectCostOf(view, left, right) ==
  IF right >= Len(view) THEN [panicked |-> TRUE, cost |-> 0]
  ELSE IF left >= Len(At(view, right)) THEN [panicked |-> TRUE, cost |-> 0]
  ELSE [panicked |-> FALSE, cost |-> GetConnectCost(view, left, right)]

MatInit ==
  /\ \E lsize \in 1..MaxIds, rsize \in 1..MaxIds, base \in {0, 100, 200} :
       matrix_def = MatrixDef(lsize, rsize, base)
  /\ matrix_file = <<>>
  /\ grammar_matrix = <<>>
  /\ mat_pc = "text"
  /\ mat_query = NoQuery

\* the dictionary builder writes the matrix of matrix.def
DoWriteMatrix ==
  /\ mat_pc = "text"
  /\ matrix_file' = WriteMatrix(matrix_def)
  /\ mat_pc' = "written"
  /\ UNCHANGED <<matrix_def, grammar_matrix, mat_query>>
  /\ UNCHANGED notMat

\* Grammar::from_reader on the dictionary the builder wrote
DoGrammarFromReader ==
  /\ mat_pc = "written"
  /\ LET read == GrammarFromReader(matrix_def.lsize, matrix_def.rsize, matrix_file)
     IN /\ grammar_matrix' = read.matrix_view
        /\ mat_pc' = IF read.result = "ok" THEN "loaded" ELSE read.result
  /\ UNCHANGED <<matrix_def, matrix_file, mat_query>>
  /\ UNCHANGED notMat

\* get_connect_cost(left, right) for a left id and a right id of matrix.def
DoGetConnectCost(left, right) ==
  /\ mat_pc = "loaded"
  /\ left < matrix_def.lsize
  /\ right < matrix_def.rsize
  /\ mat_query' = [called |-> TRUE, left |-> left, right |-> right]
                    @@ ConnectCostOf(grammar_matrix, left, right)
  /\ UNCHANGED <<matrix_def, matrix_file, grammar_matrix, mat_pc>>
  /\ UNCHANGED notMat

MatNext ==
  \/ DoWriteMatrix
  \/ DoGrammarFromReader
  \/ \E left \in 0..(MaxIds - 1), right \in 0..(MaxIds - 1) : DoGetConnectCost(left, right)

InitMat ==
  MatInit /\ BuilderIdle /\ CatIdle /\ LexIdle /\ TokIdle /\ LockIdle /\ TrieIdle /\ DictIdle
    /\ CostIdle /\ OovIdle /\ UnkIdle /\ NormIdle /\ PsmIdle

SpecMat == InitMat /\ [][MatNext]_vars

\* the cost matrix.def gives on the line "l r cost"
CostOfLine(def, l, r) ==
  def.lines[CHOOSE k \in 1..Len(def.lines) : def.lines[k].l = l /\ def.lines[k].r = r].cost

\* C24: for every matrix.def of L left ids and R right ids, L # R included,
\* that the builder writes and the grammar loads, get_connect_cost(l, r)
\* returns the cost of the line "l r cost" for every l < L and r < R, and no
\* read goes beyond the stored matrix.
C24_CostOfTheLine ==
  /\ mat_pc \in {"text", "written", "loaded"}
  /\ mat_query.called =>
       /\ ~mat_query.panicked
       /\ mat_query.cost = CostOfLine(matrix_def, mat_query.left, mat_query.right)

\* a matrix of as many left ids as right ids answers with the cost of the line
SquareMatrixAnswers ==
  /\ mat_query.called
  /\ matrix_def.lsize = matrix_def.rsize
  /\ mat_query.left # mat_query.right
  /\ ~mat_query.panicked
  /\ mat_query.cost = CostOfLine(matrix_def, mat_query.left, mat_query.right)

\* from_reader panics on a matrix of more left ids than right ids
WideMatrixPanicsOnLoad ==
  /\ mat_pc = "panicked"
  /\ matrix_def.lsize > matrix_def.rsize
  /\ Len(matrix_file) = matrix_def.lsize * matrix_def.rsize

\* get_connect_cost panics on a matrix of fewer left ids than right ids
TallMatrixPanicsOnGet ==
  /\ mat_query.called
  /\ matrix_def.lsize < matrix_def.rsize
  /\ mat_query.right >= matrix_def.lsize
  /\ mat_query.panicked
----------------------------------------------------------------------------
\* MecabOovPlugin::provide_oov called on its own: one plugin, one input text,
\* calls at the character boundaries of the text.

\* the most templates unk.def gives a category
MaxTemplates == 2

\* the longest text provide_oov is called on, in characters
MaxOovText == 3

\* the most characters char.def lets a category take as a prefix
MaxOovLength == 3

\* the templates of a category with T lines in unk.def
Templates(T) == [j \in 1..T |-> Oov(0, 0, 0, j)]

\* the plugins: ALPHA and KANJI set up alike, each with T templates
MecabOovPlugins ==
  {[class |-> "MecabOovPlugin",
    categories |-> [c \in {"ALPHA", "KANJI"} |-> category_info],
    oovs_list |-> [c \in {"ALPHA", "KANJI"} |-> Templates(T)]] :
     category_info \in {CategoryInfo(is_invoke, is_group, length) :
                          is_invoke \in BOOLEAN, is_group \in BOOLEAN,
                          length \in 0..MaxOovLength},
     T \in 1..MaxTemplates}

\* the texts: one-byte and three-byte characters
OovTexts == SeqsUpTo({CP.a, CP.kanji}, MaxOovText) \ {<<>>}

OovInit ==
  /\ oov_plugin \in MecabOovPlugins
  /\ oov_input \in {BuildInputText(text, text, NewTextOffsets(text),
                                   Compile(CharacterDefinition, "earliest").range_list) :
                      text \in OovTexts}
  /\ oov_query = NoQuery

\* plugin.provide_oov(&input_text, offset, has_other_words)
DoProvideOov(offset, has_other_words) ==
  /\ oov_plugin # NoQuery
  /\ IsCharAlignment(oov_input, offset)
  /\ LET provided == MecabProvideOov(oov_plugin, oov_input, offset, has_other_words, 0, -1)
     IN oov_query' =
          [offset |-> offset, has_other_words |-> has_other_words,
           panicked |-> overflow_checks /\ provided.underflow,
           nodes |-> IF overflow_checks /\ provided.underflow THEN <<>>
                     ELSE [j \in 1..Len(provided.nodes) |->
                             [head_word_length |->
                                NodeWordInfo(provided.nodes[j]).head_word_length,
                              pos_id |-> NodeWordInfo(provided.nodes[j]).pos_id]]]
  /\ UNCHANGED <<oov_plugin, oov_input>>
  /\ UNCHANGED notOov

OovNext ==
  \E offset \in 0..(3 * MaxOovText - 1), has_other_words \in BOOLEAN :
    /\ oov_input # NoQuery
    /\ offset < Len(oov_input.bytes)
    /\ DoProvideOov(offset, has_other_words)

InitOov ==
  /\ OovInit
  /\ BuilderIdle /\ CatIdle /\ LexIdle /\ LockIdle /\ TrieIdle /\ DictIdle
  /\ CostIdle /\ MatIdle /\ UnkIdle /\ NormIdle /\ PsmIdle
  /\ matrix_view = <<>>
  /\ oov_provider_plugins = <<>>
  /\ input_text_plugins = <<>>
  /\ overflow_checks \in BOOLEAN
  /\ grammar_poisoned = FALSE
  /\ lexicon_set_poisoned = FALSE
  /\ logger_set = FALSE
  /\ failures = {}
  /\ tok_pc = "idle"
  /\ tok_result = NoQuery

SpecOov == InitOov /\ [][OovNext]_vars

\* the category of the plugin the character at offset has
OovCategory(input, offset) ==
  CHOOSE c \in DOMAIN oov_plugin.categories : c \in CharCategoryTypesAt(input, offset)

\* the spans the category gives at offset: the whole run if it groups, and
\* the prefixes of 1..length characters up to the first that exceeds the run
SpansOf(category_info, input, offset) ==
  LET run == GetCharCategoryContinuousLength(input, offset)
      Prefix(i) == GetCodePointsOffsetLength(input, offset, i)
  IN (IF category_info.is_group THEN {run} ELSE {})
       \cup {Prefix(i) : i \in {n \in 1..category_info.length :
                                  \A m \in 1..n : Prefix(m) <= run}}

\* C25: provide_oov returns, and gives nodes only for a category that is
\* invoked or at a position with no other words; for such a category every
\* template gets a node for the whole run if the category groups and for each
\* prefix of 1..length characters up to the first that exceeds the run, and
\* no other node: the spans do not depend on the number of templates.
C25_SpansOfEveryTemplate ==
  oov_query # NoQuery =>
    LET category_info == oov_plugin.categories[OovCategory(oov_input, oov_query.offset)]
        oovs == oov_plugin.oovs_list[OovCategory(oov_input, oov_query.offset)]
        emitted == {<<oov_query.nodes[j].head_word_length, oov_query.nodes[j].pos_id>> :
                      j \in 1..Len(oov_query.nodes)}
    IN /\ ~oov_query.panicked
       /\ emitted =
            IF ~category_info.is_invoke /\ oov_query.has_other_words THEN {}
            ELSE SpansOf(category_info, oov_input, oov_query.offset)
                   \X {oovs[j].pos_id : j \in 1..Len(oovs)}

\* two templates of a grouping category: the prefix of two characters of a
\* run of three is not emitted
TwoTemplatesDropAPrefix ==
  /\ oov_query # NoQuery
  /\ ~oov_query.panicked
  /\ Len(oov_plugin.oovs_list["ALPHA"]) = 2
  /\ oov_plugin.categories["ALPHA"] = CategoryInfo(TRUE, TRUE, 2)
  /\ oov_input.bytes = <<CP.a, CP.a, CP.a>>
  /\ oov_query.offset = 0
  /\ \A j \in 1..Len(oov_query.nodes) : oov_query.nodes[j].head_word_length # 2

\* more templates than bytes in the run: l_len -= 1 goes below zero
TemplatesOutnumberTheRun ==
  /\ oov_query # NoQuery
  /\ oov_query.panicked

\* one template: the spans are those of the category
OneTemplateSpans ==
  /\ oov_query # NoQuery
  /\ Len(oov_plugin.oovs_list["ALPHA"]) = 1
  /\ oov_plugin.categories["ALPHA"].is_group
  /\ oov_plugin.categories["ALPHA"].length = 2
  /\ Len(oov_query.nodes) = 3
----------------------------------------------------------------------------
\* MecabOovPlugin::read_oov_from_reader on an unk.def.  A line is the list of
\* its columns, line.trim().split(','): an empty line is one empty column.

\* the most lines of an unk.def
MaxUnkLines == 3

\* CategoryType::from_str knows the name
CategoryTypeNames == {"DEFAULT", "ALPHA", "NUMERIC", "KANJI"}

\* the part-of-speech list of the grammar
UnkPosList == << <<"noun", "*", "*", "*", "*", "*">>, <<"symbol", "*", "*", "*", "*", "*">> >>

\* Grammar::get_part_of_speech_id: pos_list.iter().position(), -1 for None
GetPartOfSpeechId(pos_list, pos) ==
  LET hits == {k \in 1..Len(pos_list) : pos_list[k] = pos}
  IN IF hits = {} THEN -1 ELSE (CHOOSE k \in hits : \A h \in hits : k <= h) - 1

\* the categories of char.def
UnkCategories ==
  [c \in {"ALPHA", "KANJI"} |-> CategoryInfo(TRUE, TRUE, 1)]

\* "type,left,right,cost,pos1,..,pos6"
UnkLine(type, left_id, right_id, cost, pos1) ==
  <<type, left_id, right_id, cost, pos1, "*", "*", "*", "*", "*">>

\* the lines: empty, well formed (one of a part of speech the grammar does not
\* have), too short, of a category char.def does not have, of no category
UnkLines ==
  { <<"">>,
    UnkLine("KANJI", 1, 1, 10, "noun"),
    UnkLine("KANJI", 2, 2, 20, "verb"),
    UnkLine("ALPHA", 3, 3, 30, "symbol"),
    <<"KANJI", 1>>,
    UnkLine("NUMERIC", 1, 1, 10, "noun"),
    UnkLine("FOO", 1, 1, 10, "noun") }

\* read_oov_from_reader: the loop over the lines from line i on
RECURSIVE ReadOovFromReader(_, _, _, _, _)
ReadOovFromReader(lines, categories, pos_list, i, oovs_list) ==
  IF i > Len(lines) THEN [err |-> "ok", oovs_list |-> oovs_list]
  ELSE LET cols == lines[i]
           oov == Oov(cols[2], cols[3], cols[4],
                      GetPartOfSpeechId(pos_list, SubSeq(cols, 5, 10)))
       IN IF ~(cols = <<"">>)
            THEN ReadOovFromReader(lines, categories, pos_list, i + 1, oovs_list)
          ELSE IF Len(cols) < 10 THEN [err |-> "InvalidUnkFormatErr", oovs_list |-> <<>>]
          ELSE IF cols[1] \notin CategoryTypeNames
            THEN [err |-> "InvalidTypeErr", oovs_list |-> <<>>]
          ELSE IF cols[1] \notin DOMAIN categories
            THEN [err |-> "NotDefinedErr", oovs_list |-> <<>>]
          ELSE ReadOovFromReader(lines, categories, pos_list, i + 1,
                 IF cols[1] \in DOMAIN oovs_list
                   THEN [oovs_list EXCEPT ![cols[1]] = Append(@, oov)]
                   ELSE oovs_list @@ (cols[1] :> <<oov>>))

UnkInit ==
  /\ unk_def \in SeqsUpTo(UnkLines, MaxUnkLines)
  /\ unk_read = NoQuery

\* MecabOovPlugin::read_oov_from_reader(&mut reader, &categories, grammar)
DoReadOov ==
  /\ unk_read = NoQuery
  /\ unk_read' = ReadOovFromReader(unk_def, UnkCategories, UnkPosList, 1, <<>>)
  /\ UNCHANGED unk_def
  /\ UNCHANGED notUnk

UnkNext == DoReadOov

InitUnk ==
  /\ UnkInit
  /\ BuilderIdle /\ CatIdle /\ LexIdle /\ TokIdle /\ LockIdle /\ TrieIdle /\ DictIdle
  /\ CostIdle /\ MatIdle /\ OovIdle /\ NormIdle /\ PsmIdle

SpecUnk == InitUnk /\ [][UnkNext]_vars

\* the line is well formed: ten columns, a category of char.def
WellFormed(cols) == Len(cols) >= 10 /\ cols[1] \in DOMAIN UnkCategories

\* the templates of the well-formed lines of a category, in file order
RECURSIVE TemplatesOf(_, _)
TemplatesOf(lines, category) ==
  IF lines = <<>> THEN <<>>
  ELSE (IF WellFormed(Head(lines)) /\ Head(lines)[1] = category
          THEN << Oov(Head(lines)[2], Head(lines)[3], Head(lines)[4],
                      GetPartOfSpeechId(UnkPosList, SubSeq(Head(lines), 5, 10))) >>
          ELSE <<>>)
       \o TemplatesOf(Tail(lines), category)

\* C26: after read_oov_from_reader on an unk.def whose lines are all empty or
\* well formed, the read has succeeded and the template list of each category
\* holds one template per well-formed line naming the category, in file
\* order; a category no line names has no list.
C26_TemplatesOfTheLines ==
  (/\ unk_read # NoQuery
   /\ \A i \in 1..Len(unk_def) : unk_def[i] = <<"">> \/ WellFormed(unk_def[i]))
    => /\ unk_read.err = "ok"
       /\ \A c \in DOMAIN UnkCategories :
            IF TemplatesOf(unk_def, c) = <<>> THEN c \notin DOMAIN unk_read.oovs_list
            ELSE /\ c \in DOMAIN unk_read.oovs_list
                 /\ unk_read.oovs_list[c] = TemplatesOf(unk_def, c)

\* well-formed lines are skipped: the read succeeds with no template
WellFormedLinesSkipped ==
  /\ unk_read # NoQuery
  /\ Len(unk_def) = 3
  /\ \A i \in 1..Len(unk_def) : WellFormed(unk_def[i])
  /\ unk_read = [err |-> "ok", oovs_list |-> <<>>]

\* an empty line is an error
EmptyLineRejected ==
  /\ unk_read # NoQuery
  /\ \E i \in 1..Len(unk_def) : unk_def[i] = <<"">>
  /\ unk_read.err = "InvalidUnkFormatErr"
----------------------------------------------------------------------------
\* DefaultInputTextPlugin::rewrite called on a builder of its own.

\* the longest text rewrite is called on, in characters
MaxNormText == 3

\* the characters: a, b, fullwidth B and b, and the square of three characters
NormCP == [a |-> 97, b |-> 98, wide_cap |-> 65314, wide |-> 65346, kabu |-> 12849]

NormAlphabet == {NormCP.a, NormCP.b, NormCP.wide_cap, NormCP.wide, NormCP.kabu}

\* char::to_lowercase
ToLowercase(c) == IF c = NormCP.wide_cap THEN <<NormCP.wide>> ELSE <<c>>

\* str::nfkc of one character
NfkcOf(c) ==
  IF c = NormCP.wide THEN <<NormCP.b>>
  ELSE IF c = NormCP.wide_cap THEN <<66>>
  ELSE IF c = NormCP.kabu THEN <<40, 26666, 41>>
  ELSE <<c>>

\* str::nfkc
Nfkc(text) == Flatten([k \in 1..Len(text) |-> NfkcOf(text[k])])

\* read_rewrite_lists_from_reader on the lines of a rewrite.def: a line of
\* one column is an ignored character, a line of two a key and its replacement
ReadRewriteLists(ignored, replaced) ==
  [ignore_normalize_set |-> ignored,
   replace_char_map |-> [key \in {Utf8Bytes(pair[1]) : pair \in replaced} |->
                           (CHOOSE pair \in replaced : Utf8Bytes(pair[1]) = key)[2]],
   key_lengths |-> [c \in {pair[1][1] : pair \in replaced} |->
                      LET lens == {Len(pair[1]) : pair \in {p \in replaced : p[1][1] = c}}
                      IN CHOOSE n \in lens : \A m \in lens : m <= n]]

\* the rewrite.def files
DefaultInputTextPlugins ==
  {ReadRewriteLists(ignored, replaced) :
     ignored \in {{}, {<<NormCP.wide>>}},
     replaced \in {{},
                   {<< <<NormCP.a>>, <<NormCP.b, NormCP.b>> >>},
                   {<< <<NormCP.a>>, <<NormCP.b>> >>,
                    << <<NormCP.a, NormCP.b>>, <<NormCP.kabu>> >>}}}

\* rewrite: the loop from character i on.  The slice chars[i..i + l] panics
\* when it ends beyond the text.
RECURSIVE DefaultLoop(_, _, _, _, _, _)
DefaultLoop(plugin, text, builder, i, offset, next_offset) ==
  LET count == Len(text)
      off == offset + next_offset
      original == At(text, i)
      key_length == IF original \in DOMAIN plugin.key_lengths
                      THEN plugin.key_lengths[original] ELSE 0
      max_length == IF key_length < count - 1 THEN key_length ELSE count - 1
      hits == {l \in 1..max_length :
                 Utf8Bytes(Slice(text, i, i + l)) \in DOMAIN plugin.replace_char_map}
      lower == ToLowercase(original)
      Replaced(l, replace) ==
        DefaultLoop(plugin, text,
                    Replace(builder.modified_text, builder.text_offsets,
                            i + off, i + l + off, replace),
                    i + l, off, Len(replace) - l)
      Found(l) == Replaced(l, plugin.replace_char_map[Utf8Bytes(Slice(text, i, i + l))])
      Normalized(replace) ==
        IF <<original>> # replace THEN Replaced(1, replace)
        ELSE DefaultLoop(plugin, text, builder, i + 1, off, Len(replace) - 1)
  IN IF ~builder.ok THEN builder
     ELSE IF i >= count THEN builder
     ELSE IF max_length >= 1 /\ i + max_length > count
       THEN [builder EXCEPT !.ok = FALSE, !.err = "panicked"]
     ELSE IF hits # {} THEN Found(CHOOSE l \in hits : \A m \in hits : m <= l)
     ELSE IF lower \in plugin.ignore_normalize_set
       THEN IF <<original>> = lower
              THEN DefaultLoop(plugin, text, builder, i + 1, off, 0)
              ELSE Normalized(lower)
     ELSE Normalized(Nfkc(lower))

\* DefaultInputTextPlugin::rewrite
DefaultRewrite(plugin, builder) ==
  DefaultLoop(plugin, builder.modified_text, builder, 0, 0, 0)

NormInit ==
  /\ norm_plugin \in DefaultInputTextPlugins
  /\ norm_text \in SeqsUpTo(NormAlphabet, MaxNormText) \ {<<>>}
  /\ norm_result = NoQuery

\* plugin.rewrite(&mut builder) on UTF8InputTextBuilder::new(text, grammar)
DoDefaultRewrite ==
  /\ norm_plugin # NoQuery
  /\ norm_result = NoQuery
  /\ norm_result' = DefaultRewrite(norm_plugin,
                                   [ok |-> TRUE, err |-> "ok", modified_text |-> norm_text,
                                    text_offsets |-> NewTextOffsets(norm_text)])
  /\ UNCHANGED <<norm_plugin, norm_text>>
  /\ UNCHANGED notNorm

NormNext == DoDefaultRewrite

InitNorm ==
  /\ NormInit
  /\ BuilderIdle /\ CatIdle /\ LexIdle /\ TokIdle /\ LockIdle /\ TrieIdle /\ DictIdle
  /\ CostIdle /\ MatIdle /\ OovIdle /\ UnkIdle /\ PsmIdle

SpecNorm == InitNorm /\ [][NormNext]_vars

\* the text with, from character i on, the longest key at each position
\* replaced and every other character not of the ignore set normalized
RECURSIVE Normalization(_, _, _)
Normalization(plugin, text, i) ==
  LET keys == {l \in 1..(Len(text) - i) :
                 Utf8Bytes(Slice(text, i, i + l)) \in DOMAIN plugin.replace_char_map}
      longest == CHOOSE l \in keys : \A m \in keys : m <= l
  IN IF i >= Len(text) THEN <<>>
     ELSE IF keys # {}
       THEN plugin.replace_char_map[Utf8Bytes(Slice(text, i, i + longest))]
              \o Normalization(plugin, text, i + longest)
     ELSE IF <<At(text, i)>> \in plugin.ignore_normalize_set
       THEN <<At(text, i)>> \o Normalization(plugin, text, i + 1)
     ELSE Nfkc(ToLowercase(At(text, i))) \o Normalization(plugin, text, i + 1)

\* C27: rewrite returns without reading past the end of the text, and the
\* builder's text is the text with, at each position from left to right
\* (the last one and that of a one-character text too), the longest key that
\* matches there replaced, and every character no key matches at replaced by
\* the NFKC form of its lowercase unless it is in the ignore-normalize set.
C27_LongestKeyAtEveryPosition ==
  norm_result # NoQuery =>
    /\ norm_result.ok
    /\ norm_result.modified_text = Normalization(norm_plugin, norm_text, 0)

\* a text of one character that is a key is left as it is
SingleCharacterKeyKept ==
  /\ norm_result # NoQuery
  /\ norm_text = <<NormCP.a>>
  /\ Utf8Bytes(<<NormCP.a>>) \in DOMAIN norm_plugin.replace_char_map
  /\ norm_result.ok
  /\ norm_result.modified_text = <<NormCP.a>>

\* a key of two characters is looked for at the last character: the slice
\* ends beyond the text
KeyBeyondTheEndPanics ==
  /\ norm_result # NoQuery
  /\ norm_text = <<NormCP.b, NormCP.b, NormCP.a>>
  /\ norm_result.err = "panicked"

\* a text of three characters none of which begins a key of two: the text is
\* the normalization
ShortKeysRewritten ==
  /\ norm_result # NoQuery
  /\ norm_text = <<NormCP.a, NormCP.kabu, NormCP.wide_cap>>
  /\ norm_plugin.ignore_normalize_set = {}
  /\ norm_result.ok
  /\ norm_result.modified_text = <<NormCP.b, NormCP.b, 40, 26666, 41, NormCP.b>>
----------------------------------------------------------------------------
\* ProlongedSoundMarkInputTextPlugin::rewrite called on a builder of its own.

\* the longest text rewrite is called on, in characters
MaxPsmText == 5

\* the characters: a letter and two prolonged sound marks
PsmCP == [a |-> 97, mark |-> 12540, tilde |-> 12316]

\* ProlongedSoundMarkInputTextPlugin::new on the plugin's settings
ProlongedSoundMarkInputTextPlugin(prolongedSoundMarks, replacementSymbol) ==
  [class |-> "ProlongedSoundMarkInputTextPlugin",
   psm_set |-> prolongedSoundMarks,
   replace_symbol |-> replacementSymbol]

\* the settings: no mark, one or two; a symbol of no, one or two characters
ProlongedSoundMarkPlugins ==
  {ProlongedSoundMarkInputTextPlugin(marks, symbol) :
     marks \in {{}, {PsmCP.mark}, {PsmCP.mark, PsmCP.tilde}},
     symbol \in {<<>>, <<PsmCP.mark>>, <<PsmCP.a>>, <<PsmCP.mark, PsmCP.mark>>}}

PsmInit ==
  /\ psm_plugin \in ProlongedSoundMarkPlugins
  /\ psm_text \in SeqsUpTo({PsmCP.a, PsmCP.mark, PsmCP.tilde}, MaxPsmText) \ {<<>>}
  /\ psm_result = NoQuery

\* plugin.rewrite(&mut builder) on UTF8InputTextBuilder::new(text, grammar)
DoProlongedRewrite ==
  /\ psm_plugin # NoQuery
  /\ psm_result = NoQuery
  /\ psm_result' = Rewrite(psm_plugin,
                           [ok |-> TRUE, err |-> "ok", modified_text |-> psm_text,
                            text_offsets |-> NewTextOffsets(psm_text)])
  /\ UNCHANGED <<psm_plugin, psm_text>>
  /\ UNCHANGED notPsm

PsmNext == DoProlongedRewrite

InitPsm ==
  /\ PsmInit
  /\ BuilderIdle /\ CatIdle /\ LexIdle /\ TokIdle /\ LockIdle /\ TrieIdle /\ DictIdle
  /\ CostIdle /\ MatIdle /\ OovIdle /\ UnkIdle /\ NormIdle

SpecPsm == InitPsm /\ [][PsmNext]_vars

\* the length of the run of marks that begins at character i
RECURSIVE RunOfMarks(_, _, _)
RunOfMarks(text, marks, i) ==
  IF i >= Len(text) \/ At(text, i) \notin marks THEN 0
  ELSE 1 + RunOfMarks(text, marks, i + 1)

\* the text from character i on, every maximal run of two or more marks
\* made one symbol
RECURSIVE Collapsed(_, _, _, _)
Collapsed(text, marks, symbol, i) ==
  LET run == RunOfMarks(text, marks, i)
  IN IF i >= Len(text) THEN <<>>
     ELSE IF run >= 2 THEN symbol \o Collapsed(text, marks, symbol, i + run)
     ELSE <<At(text, i)>> \o Collapsed(text, marks, symbol, i + 1)

\* rewrite returned Ok and the builder's text is the collapsed text
CollapsedByRewrite ==
  /\ psm_result.ok
  /\ psm_result.modified_text =
       Collapsed(psm_text, psm_plugin.psm_set, psm_plugin.replace_symbol, 0)

\* C28: for every text, set of marks and replacement symbol, rewrite makes
\* every maximal run of two or more marks (a run at the end of the text and
\* each of several runs too) one replacement symbol and leaves every other
\* character, single marks too, as it is, in order.
C28_RunsCollapsedForAnySymbol ==
  psm_result # NoQuery => CollapsedByRewrite

\* with a replacement symbol of one character the runs are collapsed
OneCharacterSymbolCollapses ==
  (psm_result # NoQuery /\ Len(psm_plugin.replace_symbol) = 1) => CollapsedByRewrite

\* two runs, the second at the end of the text, each made one symbol
TwoRunsCollapsed ==
  /\ psm_result # NoQuery
  /\ psm_plugin.psm_set = {PsmCP.mark, PsmCP.tilde}
  /\ psm_plugin.replace_symbol = <<PsmCP.mark>>
  /\ psm_text = <<PsmCP.mark, PsmCP.tilde, PsmCP.a, PsmCP.tilde, PsmCP.tilde>>
  /\ psm_result.modified_text = <<PsmCP.mark, PsmCP.a, PsmCP.mark>>

\* a symbol of two characters: the second run is replaced one character
\* early, and the letter between the runs is lost
LongSymbolShiftsTheSecondRun ==
  /\ psm_result # NoQuery
  /\ psm_plugin.psm_set = {PsmCP.mark}
  /\ psm_plugin.replace_symbol = <<PsmCP.mark, PsmCP.mark>>
  /\ psm_text = <<PsmCP.mark, PsmCP.mark, PsmCP.a, PsmCP.mark, PsmCP.mark>>
  /\ psm_result.modified_text =
       <<PsmCP.mark, PsmCP.mark, PsmCP.mark, PsmCP.mark, PsmCP.mark>>
----------------------------------------------------------------------------
\* The best path and the costs of a tokenize call (checked under SpecTok).

\* the nodes of the path lie end to start from byte 0 to byte n
Contiguous(path, n) ==
  /\ path # <<>>
  /\ path[1].start = 0
  /\ \A k \in 1..(Len(path) - 1) : path[k].end = path[k + 1].start
  /\ \A k \in 1..Len(path) : path[k].start < path[k].end
  /\ path[Len(path)].end = n

\* C29: for every non-empty input on which the lattice fill completes, the
\* path of get_best_path is non-empty and contiguous: its first node starts
\* at byte 0, each node ends where the next one starts, every node has
\* start < end (so neither BOS nor EOS is in it), and its last node ends at
\* the byte length of the modified text.
C29_BestPathContiguous ==
  (tok_result.called /\ tok_result.kind = "some") =>
    Contiguous(tok_result.best_path, TextLength)

\* EOS is not connected to BOS: get_best_path returns the empty path
UnconnectedEosEmptyPath ==
  /\ tok_result.called
  /\ tok_result.kind = "some"
  /\ ~tok_result.lattice.eos_node[1].is_connected_to_bos
  /\ tok_result.best_path = <<>>

\* a node drew the id of BOS: the path stops at it and begins after byte 0
ClashShortensThePath ==
  /\ tok_result.called
  /\ tok_result.kind = "some"
  /\ tok_result.best_path # <<>>
  /\ tok_result.best_path[1].start > 0

\* EOS is connected and no node has the id of BOS: the path is contiguous
ConnectedEosContiguousPath ==
  /\ tok_result.called
  /\ tok_result.kind = "some"
  /\ tok_result.lattice.eos_node[1].is_connected_to_bos
  /\ Len(tok_result.best_path) = 2
  /\ Contiguous(tok_result.best_path, TextLength)

\* the total cost of a node no path from BOS reaches is i32::MAX + cost,
\* and that sum is an i32
UnconnectedCostExact(node) ==
  node.is_connected_to_bos \/ (node.cost <= 0 /\ node.total_cost = I32Max + node.cost)

\* C30: connect_node never overflows: no call panics in the addition, and
\* every inserted node and EOS that no path from BOS reaches (no predecessor
\* connected to BOS, or every connection inhibited) has the total cost
\* i32::MAX + cost without wrap-around.
C30_ConnectNodeNeverOverflows ==
  tok_result.called =>
    /\ tok_result.cause \notin {"overflow", "overflow_eos"}
    /\ \A k \in 1..Len(tok_result.inserts) : UnconnectedCostExact(tok_result.inserts[k].node)
    /\ tok_result.kind = "some" => UnconnectedCostExact(tok_result.lattice.eos_node[1])

\* a build with overflow checks: the addition panics for an unreached node
UnconnectedNodePanics ==
  /\ tok_result.called
  /\ overflow_checks
  /\ tok_result.cause = "overflow"

\* a build without overflow checks: the total cost of an unreached node of
\* positive cost has wrapped around to a negative number
UnconnectedNodeWraps ==
  /\ tok_result.called
  /\ ~overflow_checks
  /\ \E k \in 1..Len(tok_result.inserts) :
       /\ ~tok_result.inserts[k].node.is_connected_to_bos
       /\ tok_result.inserts[k].node.cost > 0
       /\ tok_result.inserts[k].node.total_cost < 0

\* EOS, of cost 0, unreached: its total cost is i32::MAX
UnconnectedEosCostExact ==
  /\ tok_result.called
  /\ tok_result.kind = "some"
  /\ ~tok_result.lattice.eos_node[1].is_connected_to_bos
  /\ tok_result.lattice.eos_node[1].total_cost = I32Max

====
